---- MODULE Spec2Model ----
(***************************************************************************)
(* Model of ask-llm: the query-file loader (ConfigManager.load_queries)    *)
(* and the per-document pipeline (DocumentProcessor.process_document,     *)
(* DocumentAnalyzer.process_pdf / _apply_filters).                         *)
(*                                                                         *)
(* Two specifications share the module:                                    *)
(*   SpecQ  load_queries over a bounded sequence of query sections         *)
(*   Spec   one call of DocumentProcessor.process_document, or one run of  *)
(*          DocumentAnalyzer.process_files over one input item             *)
(*          (process_pdf, then _apply_filters)                             *)
(***************************************************************************)
EXTENDS Integers, Sequences, FiniteSets, TLC

\* ---------------------------------------------------------------- bounds
MaxSections == 2
MaxQueries == 2
MaxCandidates == 2
MaxDocs == 2
MaxEntries == 2
MaxUpdates == 2
MaxCleanups == 2
MaxReported == 2

\* ------------------------------------------------------- Python values
\* Every Python value stored in a params dict has one record shape, so that
\* values of different Python types can be compared.
PyAbsent == [t |-> "absent", n |-> 0, b |-> FALSE, s |-> ""]
PyFloat(n) == [t |-> "float", n |-> n, b |-> FALSE, s |-> ""]
PyInt(n) == [t |-> "int", n |-> n, b |-> FALSE, s |-> ""]
PyBool(b) == [t |-> "bool", n |-> 0, b |-> b, s |-> ""]
PyStr(s) == [t |-> "str", n |-> 0, b |-> FALSE, s |-> s]

\* Python truth value of a params value (dict.get default None is PyAbsent).
Truthy(v) ==
    CASE v.t = "absent" -> FALSE
      [] v.t = "bool" -> v.b
      [] v.t = "str" -> v.s # ""
      [] OTHER -> v.n # 0

\* a.copy(); a.update(b) on dicts with a fixed key universe
DictUpdate(a, b) == [k \in DOMAIN a |-> IF b[k] # PyAbsent THEN b[k] ELSE a[k]]

\* {k: v for k, v in d.items() if k in keys}
DictRestrict(d, keys) == [k \in DOMAIN d |-> IF k \in keys THEN d[k] ELSE PyAbsent]

\* ------------------------------------------------ load_queries: inputs
\* A parameter line "name: value" of a section: its name and its raw value
\* after value.strip().  NoLine says the section has no such line.
NoLine == "<no line>"

LineNames ==
    {"model-name", "temperature", "google-search", "filter-on",
     "semantic-scholar", "relevance-search", "limit", "offset", "year"}

\* Keys of the params dict the loader can produce.
ParamKeys ==
    {"model", "temperature", "google_search", "filter_on", "semantic_scholar",
     "relevance_search", "limit", "ss_offset", "ss_year"}

EmptyParams == [k \in ParamKeys |-> PyAbsent]

\* float(value): the raw spellings the model uses, in tenths; -1 is ValueError.
ParseFloat(raw) ==
    CASE raw = "0.2" -> 2
      [] raw = "0.20" -> 2
      [] raw = "0.7" -> 7
      [] OTHER -> -1

\* int(value); -1 is ValueError.
ParseInt(raw) ==
    CASE raw = "10" -> 10
      [] raw = "010" -> 10
      [] raw = "25" -> 25
      [] OTHER -> -1

\* value.lower()
Lower(raw) ==
    CASE raw = "True" -> "true"
      [] raw = "OFF" -> "off"
      [] OTHER -> raw

TrueWords == {"true", "yes", "1", "on"}
FalseWords == {"false", "no", "0", "off"}

\* The raw values a line of each name takes in the sections the model reads:
\* two valid spellings where an override must be visible, one invalid
\* spelling where the loader rejects the value, the empty value for filter-on.
RawValues(name) ==
    CASE name = "model-name" -> {"gemini-pro", "gemini-flash"}
      [] name = "temperature" -> {"0.2", "0.7", "abc"}
      [] name = "google-search" -> {"True", "OFF", "maybe"}
      [] name = "filter-on" -> {"relevant", ""}
      [] name = "semantic-scholar" -> {"yes", "no", "maybe"}
      [] name = "relevance-search" -> {"on", "nope"}
      [] name = "limit" -> {"10", "ten"}
      [] name = "offset" -> {"5"}
      [] name = "year" -> {"2020"}

NoLines == [n \in LineNames |-> NoLine]

OneLine(name, raw) == [n \in LineNames |-> IF n = name THEN raw ELSE NoLine]

\* A section of the query file (the text between two lines of "===").
\*   empty  section.strip() == ""
\*   text   the section has at least one non-parameter line
\*   json   the fenced ```json block: "none", "invalid" (json.loads fails),
\*          "object" (a non-empty JSON object), "empty_object" ({}), "list"
\*   lines  the parameter lines
\* A fenced block consists of non-parameter lines, so json # "none" needs text.
Section(empty, text, json, lines) ==
    [empty |-> empty, text |-> text, json |-> json, lines |-> lines]

\* Two parameter lines in one section.
TwoLines(name1, raw1, name2, raw2) ==
    [n \in LineNames |-> IF n = name1 THEN raw1 ELSE IF n = name2 THEN raw2 ELSE NoLine]

LineChoices ==
    {NoLines} \cup UNION {{OneLine(name, raw) : raw \in RawValues(name)} : name \in LineNames}

\* Sections that declare a persistent and a one-shot parameter together.
MixedSections ==
    {Section(FALSE, TRUE, "object", TwoLines("temperature", "0.2", "filter-on", "relevant")),
     Section(FALSE, TRUE, "none", TwoLines("limit", "10", "semantic-scholar", "yes"))}

Sections ==
    {Section(TRUE, FALSE, "none", NoLines)}
    \cup {Section(FALSE, FALSE, "none", l) : l \in LineChoices \ {NoLines}}
    \cup {Section(FALSE, TRUE, "none", l) : l \in LineChoices}
    \cup {Section(FALSE, TRUE, j, l) :
            j \in {"invalid", "object", "empty_object", "list"},
            l \in {NoLines} \cup {OneLine("filter-on", raw) : raw \in RawValues("filter-on")}}
    \cup MixedSections

RECURSIVE SeqsUpTo(_, _)
SeqsUpTo(S, n) ==
    IF n = 0 THEN {<<>>}
    ELSE LET shorter == SeqsUpTo(S, n - 1)
         IN shorter \cup {Append(q, x) : q \in {r \in shorter : Len(r) = n - 1}, x \in S}

\* ------------------------------------------------ documents and records
\* The arguments of process_document for one input item.  "None" is Python's
\* None; "" is the default of bibtex_key, entry_text and bibtex_file_path.
Doc(pdf_path, bibtex_key, entry_text, bibtex_file_path) ==
    [pdf_path |-> pdf_path, bibtex_key |-> bibtex_key, entry_text |-> entry_text,
     bibtex_file_path |-> bibtex_file_path]

NoDoc == Doc("None", "", "", "")

EntryWithTitle == "@article{smith2020, title = {Deep Nets}}"
EntryWithoutTitle == "@misc{smith2020}"

\* The input items: a standalone file, a standalone URL, BibTeX entries with
\* no reference, a URL or a file path (extract_pdfs_from_bibtex), an entry
\* without a title, and a call with neither a reference nor an entry.
Documents ==
    {Doc("paper.pdf", "", "", ""),
     Doc("https://host/paper.pdf", "", "", ""),
     Doc("None", "smith2020", EntryWithTitle, "refs/lib.bib"),
     Doc("None", "smith2020", EntryWithoutTitle, "refs/lib.bib"),
     Doc("https://host/paper.pdf", "smith2020", EntryWithTitle, "refs/lib.bib"),
     Doc("paper.pdf", "smith2020", EntryWithTitle, "refs/lib.bib"),
     Doc("None", "", "", "")}

\* truth value of a Python str / bytes / None held as a string
StrTruthy(x) == x \notin {"None", ""}

\* A metadata dict: the keys it has and its title; MetaNone is None.
MetaNone == [t |-> "None", keys |-> {}, title |-> ""]
MetaDict(keys, title) == [t |-> "dict", keys |-> keys, title |-> title]

\* truth value of a metadata value (None and {} are false)
MetaTruthy(m) == m.t = "dict" /\ m.keys # {}

\* BibtexProcessor.extract_metadata: bibtex_key always, title when the entry has one
extract_metadata(entry_text, bibtex_key) ==
    IF entry_text = EntryWithTitle
    THEN MetaDict({"bibtex_key", "title"}, "Deep Nets")
    ELSE MetaDict({"bibtex_key"}, "")

\* metadata.get("title", "")
MetaTitle(m) == IF "title" \in m.keys THEN m.title ELSE ""

\* A parsed or raw response value.
FieldNames == {"relevant", "other"}
NoVals == [f \in FieldNames |-> PyAbsent]
PyText(s) == [t |-> "str", s |-> s, keys |-> {}, vals |-> NoVals]
JsonList == [t |-> "list", s |-> "", keys |-> {}, vals |-> NoVals]
JsonDict(keys, vals) == [t |-> "dict", s |-> "", keys |-> keys, vals |-> vals]

\* The response texts the model lets the LLM return.
Contents ==
    {"Yes, it is.", "[true]", "{}", "{\"relevant\": true}", "{\"relevant\": false}",
     "{\"relevant\": \"yes\"}", "{\"other\": true}"}

\* json.loads(response_content); t = "error" is JSONDecodeError
json_loads(text) ==
    CASE text = "[true]" -> JsonList
      [] text = "{}" -> JsonDict({}, NoVals)
      [] text = "{\"relevant\": true}" ->
            JsonDict({"relevant"}, [NoVals EXCEPT !["relevant"] = PyBool(TRUE)])
      [] text = "{\"relevant\": false}" ->
            JsonDict({"relevant"}, [NoVals EXCEPT !["relevant"] = PyBool(FALSE)])
      [] text = "{\"relevant\": \"yes\"}" ->
            JsonDict({"relevant"}, [NoVals EXCEPT !["relevant"] = PyStr("yes")])
      [] text = "{\"other\": true}" ->
            JsonDict({"other"}, [NoVals EXCEPT !["other"] = PyBool(TRUE)])
      [] OTHER -> [t |-> "error", s |-> "", keys |-> {}, vals |-> NoVals]

\* response.get(field)
DictGet(d, field) == IF field \in d.keys THEN d.vals[field] ELSE PyAbsent

\* The DocumentRecord dict of process_document.  filtered_at_query 0 is None.
NoDocument ==
    [id |-> 0, file_path |-> "None", bibtex_key |-> "", bibtex_metadata |-> MetaNone,
     is_metadata_only |-> FALSE, pdf_source |-> "unknown", pdf_url |-> "None",
     is_filtered_out |-> FALSE, filtered_at_query |-> 0, filter_reason |-> "None",
     queries |-> <<>>]

NoResult == [returned |-> FALSE, has_record |-> FALSE, success |-> FALSE]

NotSourced ==
    [found |-> FALSE, read |-> "not_tried", search |-> "not_tried", searches |-> 0,
     isfile |-> "not_tried", isfile_bibdir |-> "not_tried"]

\* The document_data dict of DocumentAnalyzer.process_pdf.
NoAnalyzerDocument ==
    [id |-> 0, file_path |-> "None", bibtex_key |-> "", is_metadata_only |-> FALSE,
     is_url |-> FALSE, queries |-> <<>>]

\* results["documents"], results["metadata"]["total_documents"] and
\* ["filtered_out_count"], and filtered_out_documents of a new DocumentAnalyzer.
NoReport ==
    [documents |-> <<>>, total_documents |-> 0, filtered_out_count |-> 0,
     filtered_out_documents |-> <<>>]

\* at: the query_id, 0 for none; had_path: was actual_path already set, so
\* that the file was not adopted; read: what open/read of the file gives.
NotDiscovered == [at |-> 0, had_path |-> FALSE, read |-> "not_tried"]

\* ------------------------------------------------------------ variables
VARIABLES
    sections,            \* load_queries: the sections of the query file
    section_idx,         \* load_queries: 1-based index of the next section
    accumulated_params,  \* load_queries: accumulated_params
    queries,             \* load_queries: the list being built, then self.queries
    query_section,       \* for each query, the index of the section it came from
    lq_pc,               \* "loop", "returned", "exit1" (sys.exit(1)), "raised", "idle"
    network_calls        \* LLM requests made so far with the loaded queries

qvars == <<sections, section_idx, accumulated_params, queries, query_section,
           lq_pc, network_calls>>

VARIABLES
    doc,                 \* process_document: pdf_path, bibtex_key, entry_text, bibtex_file_path
    use_qwant_strategy,  \* DocumentProcessor.use_qwant_strategy
    pc,                  \* "source", "loop", "break", "returned", "raised", "exit1", "idle"
    actual_path,         \* process_document local
    pdf_data,            \* process_document local: "None", "" (no bytes) or the file's bytes
    metadata,            \* process_document local
    document_data,       \* process_document local: the record under construction
    successful_queries,  \* process_document local
    query_index,         \* the loop's i + 1: 1-based index of the query the loop is at
    requests,            \* the requests sent: query_id, mode, did the query raise
    result,              \* the returned pair: is there a record, and the success flag
    sourced,             \* what sourcing went through (see Sourcing)
    discovered,          \* the first in-loop discovery that returned an existing file
    analyzer_document,   \* process_pdf: its document_data
    report               \* report_manager.results and filtered_out_documents

dvars == <<doc, use_qwant_strategy, pc, actual_path, pdf_data, metadata, document_data,
           successful_queries, query_index, requests, result, sourced, discovered,
           analyzer_document, report>>

VARIABLES
    response_data,       \* extract_response: the shape of the decoded API response
    verbose,             \* self.verbose of the client and of the processor
    er_pc,               \* "call", "returned", "raised", "handled", "idle"
    er_result,           \* what extract_response returned or raised
    query_outcome        \* what the calling query loop did: "failed" or "recorded"

evars == <<response_data, verbose, er_pc, er_result, query_outcome>>

VARIABLES
    strategy,            \* the strategy or finder that runs the find call
    chained,             \* the find call goes through the fallback chain
    has_title,           \* metadata.get("title", "") is not empty
    api_client,          \* PDFFinder.api_client is set
    find_pc,             \* "fallback", "strict", "relaxed", "candidates", "returned", ...
    search_requests,     \* the search queries issued: who sent it and which kind
    candidates,          \* PDFFinder: resolved_urls, as what download_pdf gives for each
    candidate_index,     \* PDFFinder: 1-based index of the next candidate
    downloads,           \* every download_pdf call: the query it came from, did it succeed
    tried,               \* PDFFinder: what happened to each downloaded candidate
    find_result,         \* the (path, source URL) returned, or None
    strategy_calls       \* fallback chain: the strategies invoked, in order

svars == <<strategy, chained, has_title, api_client, find_pc, search_requests,
           candidates, candidate_index, downloads, tried, find_result, strategy_calls>>

VARIABLES
    disk,                \* the temporary directory: what is at each target file name
    http_cache,          \* CachedSession: the response stored for each URL, if any
    dl_pc,               \* "first", "second", "done": the download call to come, "idle"
    dl_calls             \* every _download_pdf call: its arguments and what it did

pvars == <<disk, http_cache, dl_pc, dl_calls>>

VARIABLES
    run_config,          \* what the run finds: "ok", or the configuration error
    run_resume,          \* --resume or --load-state was given
    files,               \* the mappings process_files goes through, in order
    run_pc,              \* "construct", "initial_save", "documents", "final_save", ...
    doc_index,           \* 1-based index of the next mapping
    run_calls,           \* every process_pdf call: the entry and how the call ended
    saves,               \* every save_state attempt: when, and did it succeed
    run_report,          \* report_manager.results["documents"], by bibtex_key
    ledger,              \* the processed ledger of the loaded checkpoint
    exit_status          \* the exit status of the process, -1 while it runs

rvars == <<run_config, run_resume, files, run_pc, doc_index, run_calls, saves,
           run_report, ledger, exit_status>>

VARIABLES
    bib_database,        \* the entries of the BibTeX file, in file order
    url_mappings,        \* update_bibtex_with_urls: bibtex_key -> discovered URL
    bib_updates          \* the update_bibtex_with_urls calls made, in order
bvars == <<bib_database, url_mappings, bib_updates>>

VARIABLES
    downloaded_pdfs,     \* DocumentProcessor.downloaded_pdfs
    temp_files,          \* the files the processor has had downloaded
    handed               \* the cleanup_downloaded_pdfs calls: the paths passed on
tvars == <<downloaded_pdfs, temp_files, handed>>

yvars == <<pvars, rvars, bvars, tvars>>

\* The variables of the components that have a specification of their own.
xvars == <<evars, svars, yvars>>

vars == <<qvars, dvars, xvars>>

\* ------------------------------------------------------ extract_response
\* The decoded response as far as extract_response looks into it: is the
\* key "candidates" there, and is it null, [] or a list with an element; the
\* same for that element's "content", its "parts" and the first part's
\* "text"; and are groundingMetadata and urlContextMetadata there.
NoResponse ==
    [candidates |-> "missing", content |-> "missing", parts |-> "missing",
     text |-> "missing", grounding |-> FALSE, url_context |-> FALSE]

ResponseShapes ==
    {rd \in [candidates : {"missing", "null", "empty", "one"},
             content : {"missing", "null", "present"},
             parts : {"missing", "empty", "one"},
             text : {"missing", "null", "empty", "text"},
             grounding : BOOLEAN, url_context : BOOLEAN] :
        /\ rd.candidates # "one" =>
              rd.content = "missing" /\ ~rd.grounding /\ ~rd.url_context
        /\ rd.content # "present" => rd.parts = "missing"
        /\ rd.parts # "one" => rd.text = "missing"}

\* response_data["candidates"][0]["content"]["parts"][0]["text"]: the
\* exception the subscripts raise, or "ok"
TextLookup(rd) ==
    CASE rd.candidates = "missing" -> "KeyError"
      [] rd.candidates = "null" -> "TypeError"
      [] rd.candidates = "empty" -> "IndexError"
      [] rd.content = "missing" -> "KeyError"
      [] rd.content = "null" -> "TypeError"
      [] rd.parts = "missing" -> "KeyError"
      [] rd.parts = "empty" -> "IndexError"
      [] rd.text = "missing" -> "KeyError"
      [] OTHER -> "ok"

\* the value under "text"
TextValue(rd) ==
    CASE rd.text = "text" -> "Yes, it is."
      [] rd.text = "empty" -> ""
      [] OTHER -> "None"

\* combined_metadata if combined_metadata else None
CombinedMetadata(rd) == IF rd.grounding \/ rd.url_context THEN "dict" ELSE "None"

NoExtraction == [raised |-> "none", text |-> "None", metadata |-> "None"]

\* Mutant: a missing key or index gives an empty text instead of raising.
extract_response_placeholder(rd) ==
    IF TextLookup(rd) \in {"KeyError", "IndexError"}
    THEN [raised |-> "none", text |-> "", metadata |-> "None"]
    ELSE IF TextLookup(rd) = "TypeError"
    THEN [raised |-> "TypeError", text |-> "None", metadata |-> "None"]
    ELSE [raised |-> "none", text |-> TextValue(rd), metadata |-> CombinedMetadata(rd)]

\* GeminiAPIClient.extract_response: KeyError and IndexError are re-raised as
\* Exception("No valid response found..."), any other error propagates.
extract_response(rd) ==
    IF TextLookup(rd) \in {"KeyError", "IndexError"}
    THEN [raised |-> "Exception", text |-> "None", metadata |-> "None"]
    ELSE IF TextLookup(rd) = "TypeError"
    THEN [raised |-> "TypeError", text |-> "None", metadata |-> "None"]
    ELSE [raised |-> "none", text |-> TextValue(rd), metadata |-> CombinedMetadata(rd)]

\* The call of extract_response.
extract_response_call ==
    /\ er_pc = "call"
    /\ er_result' = extract_response(response_data)
    /\ er_pc' = IF extract_response(response_data).raised = "none"
                THEN "returned" ELSE "raised"
    /\ UNCHANGED <<response_data, verbose, query_outcome>>
    /\ UNCHANGED <<qvars, dvars, svars, yvars>>

\* The query loop around the call, for a query without a structure
\* (document_processor.py lines 351-353, 436-460, 478-485): an exception is
\* caught and the query has no entry; len(response_content) in verbose mode
\* raises on None; otherwise the entry is appended.
query_loop_handles ==
    /\ er_pc \in {"returned", "raised"}
    /\ er_pc' = "handled"
    /\ query_outcome' =
          IF er_pc = "raised" \/ (verbose /\ er_result.text = "None")
          THEN "failed" ELSE "recorded"
    /\ UNCHANGED <<response_data, verbose, er_result>>
    /\ UNCHANGED <<qvars, dvars, svars, yvars>>

IdleE ==
    /\ response_data = NoResponse
    /\ verbose = FALSE
    /\ er_pc = "idle"
    /\ er_result = NoExtraction
    /\ query_outcome = "none"

\* ------------------------------------------------------- BibTeX update
\* BibtexProcessor.update_bibtex_with_urls (bibtex.py lines 148-197).
BibKeys == {"smith2020", "jones2021"}

\* The url field of an entry: none, empty, blank, or a reference.
UrlFields ==
    {[has_url |-> FALSE, url |-> ""],
     [has_url |-> TRUE, url |-> ""],
     [has_url |-> TRUE, url |-> " "],
     [has_url |-> TRUE, url |-> "https://old.org/a.pdf"]}

\* An entry of bib_database.entries: its ID and its url field.
BibEntries == {[ID |-> k, has_url |-> f.has_url, url |-> f.url] : k \in BibKeys, f \in UrlFields}

\* The BibTeX files: up to MaxEntries entries with distinct keys.
BibFiles ==
    {db \in SeqsUpTo(BibEntries, MaxEntries) :
        \A i \in 1..Len(db) : \A j \in 1..Len(db) : i # j => db[i].ID # db[j].ID}

\* The values of url_mappings: a discovered URL, or an empty string.
MappedUrls == {"https://new.org/b.pdf", ""}

\* The dicts passed as url_mappings.
UrlMappings == UNION {[K -> MappedUrls] : K \in SUBSET BibKeys}

\* str.strip() on the strings of the model
Strip(s) == IF s = " " THEN "" ELSE s

\* Mutant: every entry of the mapping gets the discovered URL.
NeedsUrl_Always(entry) == TRUE

\* line 173: "url" not in entry or not entry["url"].strip()
NeedsUrl(entry) == ~entry.has_url \/ Strip(entry.url) = ""

\* lines 167-174: the entry is in the mapping and gets its URL
Updated(entry, mappings) == entry.ID \in DOMAIN mappings /\ NeedsUrl(entry)

\* The loop over bib_database.entries, lines 167-179.
UpdateEntries(db, mappings) ==
    [i \in DOMAIN db |->
        IF Updated(db[i], mappings)
        THEN [db[i] EXCEPT !.has_url = TRUE, !.url = mappings[db[i].ID]]
        ELSE db[i]]

\* updated_count after the loop
UpdatedCount(db, mappings) ==
    Cardinality({i \in DOMAIN db : Updated(db[i], mappings)})

\* One call of update_bibtex_with_urls on the file: reading or parsing the
\* file raises and 0 is returned, or the entries are gone through, the file
\* is written back when updated_count > 0, and updated_count is returned.
update_bibtex_with_urls ==
    /\ Len(bib_updates) < MaxUpdates
    /\ \E read_ok \in BOOLEAN :
          LET count == IF read_ok THEN UpdatedCount(bib_database, url_mappings) ELSE 0
              after == IF count > 0 THEN UpdateEntries(bib_database, url_mappings)
                       ELSE bib_database
          IN  /\ bib_database' = after
              /\ bib_updates' = Append(bib_updates,
                    [before |-> bib_database, after |-> after, returned |-> count,
                     written |-> count > 0, read_ok |-> read_ok])
    /\ UNCHANGED url_mappings
    /\ UNCHANGED <<qvars, dvars, evars, svars, pvars, rvars, tvars>>

\* ------------------------------------------------------ PDF acquisition
\* PDFSearcher._download_pdf (pdf_search.py lines 290-357).
\* "max_size = 50 * 1024 * 1024", in bytes, and the five bytes of "f.read(5)"
max_size == 52428800
HeaderLength == 5

Urls == {"https://a.org/p.pdf", "https://b.org/q"}
Titles == {"None", "", "A Paper"}

\* re.sub(r"[^\w\s\-]", "", title)[:50], then runs of white space become "_",
\* and "downloaded_paper" stands in for an empty result
SafeTitle(title) == IF title = "A Paper" THEN "A_Paper" ELSE "downloaded_paper"

\* hash(url) % 10000 within one process
UrlHash(url) == IF url = "https://a.org/p.pdf" THEN 4711 ELSE 815

\* f"ask_llm_{safe_title}_{hash(url) % 10000}.pdf" in tempfile.gettempdir()
pdf_filename(url, title) == <<"ask_llm", SafeTitle(title), UrlHash(url), "pdf">>
FileNames == {pdf_filename(u, t) : u \in Urls, t \in Titles \ {"None"}}

\* The sizes of the chunks iter_content yields, in order; one element stands
\* for a run of consecutive chunks of that total size, 0 for an empty chunk.
Streams ==
    {<<>>, <<HeaderLength>>, <<0, HeaderLength>>, <<max_size>>,
     <<max_size - HeaderLength, HeaderLength>>, <<max_size, 1>>,
     <<HeaderLength, max_size>>, <<max_size + 1>>}

RECURSIVE Total(_)
Total(chunks) == IF chunks = <<>> THEN 0 ELSE Head(chunks) + Total(Tail(chunks))

\* What one GET meets.  get: session.get raises ("raise": timeout, no
\* connection), raise_for_status raises ("http_error"), or neither ("ok");
\* pdf_type: "pdf" is in the content type; open_ok:
\* open(pdf_path, "wb") succeeds; chunks: the body; broken: iter_content
\* raises after the listed chunks; header: the body begins with %PDF-.
NoFetch ==
    [get |-> "none", pdf_type |-> FALSE, open_ok |-> FALSE, chunks |-> <<>>,
     broken |-> FALSE, header |-> FALSE]
Fetches ==
    {[NoFetch EXCEPT !.get = g] : g \in {"raise", "http_error"}}
    \cup {[NoFetch EXCEPT !.get = "ok"], [NoFetch EXCEPT !.get = "ok", !.pdf_type = TRUE]}
    \cup {f \in [get : {"ok"}, pdf_type : {TRUE}, open_ok : {TRUE}, chunks : Streams,
                 broken : BOOLEAN, header : BOOLEAN] :
             f.header => Total(f.chunks) >= HeaderLength}

\* "pdf" in content_type or url.lower().endswith(".pdf")
PdfLike(url, fetch) == fetch.pdf_type \/ url = "https://a.org/p.pdf"

\* Mutant: the size check rejects a download that reaches the maximum.
StreamLoop_RejectsAtMax(chunks, k, downloaded_size) ==
    IF Total(chunks) >= max_size THEN "too_large" ELSE "written"

\* "for chunk in response.iter_content(...)" from the k-th chunk on, with
\* downloaded_size bytes received before it (lines 328-336): "too_large" when
\* the size check fires, else "written"
RECURSIVE StreamLoop(_, _, _)
StreamLoop(chunks, k, downloaded_size) ==
    IF k > Len(chunks) THEN "written"
    ELSE IF chunks[k] = 0 THEN StreamLoop(chunks, k + 1, downloaded_size)
    ELSE IF downloaded_size + chunks[k] > max_size THEN "too_large"
    ELSE StreamLoop(chunks, k + 1, downloaded_size + chunks[k])

\* What is at a target file name.
FileStates == {"absent", "partial", "invalid", "pdf"}

\* Mutant: a file without the PDF header is kept and its path returned.
TryDownload_KeepsInvalid(url, title, fetch, before) ==
    IF title = "None" THEN [branch |-> "exception", path |-> FALSE, file |-> before]
    ELSE IF fetch.get # "ok" THEN [branch |-> "exception", path |-> FALSE, file |-> before]
    ELSE IF ~PdfLike(url, fetch) THEN [branch |-> "not_pdf", path |-> FALSE, file |-> before]
    ELSE IF ~fetch.open_ok THEN [branch |-> "exception", path |-> FALSE, file |-> before]
    ELSE IF StreamLoop(fetch.chunks, 1, 0) = "too_large"
    THEN [branch |-> "too_large", path |-> FALSE, file |-> "absent"]
    ELSE IF fetch.broken THEN [branch |-> "exception", path |-> FALSE, file |-> "partial"]
    ELSE IF ~fetch.header THEN [branch |-> "bad_header", path |-> FALSE, file |-> "invalid"]
    ELSE [branch |-> "returned", path |-> TRUE, file |-> "pdf"]

\* Mutant: the header of the downloaded file is not looked at.
TryDownload_SkipsHeaderCheck(url, title, fetch, before) ==
    IF title = "None" THEN [branch |-> "exception", path |-> FALSE, file |-> before]
    ELSE IF fetch.get # "ok" THEN [branch |-> "exception", path |-> FALSE, file |-> before]
    ELSE IF ~PdfLike(url, fetch) THEN [branch |-> "not_pdf", path |-> FALSE, file |-> before]
    ELSE IF ~fetch.open_ok THEN [branch |-> "exception", path |-> FALSE, file |-> before]
    ELSE IF StreamLoop(fetch.chunks, 1, 0) = "too_large"
    THEN [branch |-> "too_large", path |-> FALSE, file |-> "absent"]
    ELSE IF fetch.broken THEN [branch |-> "exception", path |-> FALSE, file |-> "partial"]
    ELSE [branch |-> "returned", path |-> TRUE,
          file |-> IF fetch.header THEN "pdf" ELSE "invalid"]

\* The body of the try block, for a title, the response and what was at
\* pdf_path before: the branch taken ("exception" is the except clause), is
\* pdf_path returned, and what is at pdf_path afterwards.  A None title
\* fails in re.sub; open(..., "wb") truncates an existing file.
TryDownload(url, title, fetch, before) ==
    IF title = "None" THEN [branch |-> "exception", path |-> FALSE, file |-> before]
    ELSE IF fetch.get # "ok" THEN [branch |-> "exception", path |-> FALSE, file |-> before]
    ELSE IF ~PdfLike(url, fetch) THEN [branch |-> "not_pdf", path |-> FALSE, file |-> before]
    ELSE IF ~fetch.open_ok THEN [branch |-> "exception", path |-> FALSE, file |-> before]
    ELSE IF StreamLoop(fetch.chunks, 1, 0) = "too_large"
    THEN [branch |-> "too_large", path |-> FALSE, file |-> "absent"]
    ELSE IF fetch.broken THEN [branch |-> "exception", path |-> FALSE, file |-> "partial"]
    ELSE IF ~fetch.header THEN [branch |-> "bad_header", path |-> FALSE, file |-> "absent"]
    ELSE [branch |-> "returned", path |-> TRUE, file |-> "pdf"]

\* Mutant: the exception leaves the function.
ExceptClause_Reraises(branch) == branch = "exception"

\* "except Exception as e: ... return None": does the call raise
ExceptClause(branch) == FALSE

\* requests_cache keeps the response of a GET that was answered and read to
\* the end; it may have expired by the next GET of the URL.
Cacheable(fetch) == fetch.get = "ok" /\ ~fetch.broken

\* One call of _download_pdf(url, title).  The GET is answered from the
\* cache (hit) or by the network; a title of None raises before the GET.
download_pdf_call ==
    /\ dl_pc \in {"first", "second"}
    /\ \E url \in Urls, title \in Titles, hit \in BOOLEAN,
          fetched \in Fetches \cup {NoFetch} :
          LET name == pdf_filename(url, title)
              requested == title # "None"
              fetch == IF ~requested THEN NoFetch
                       ELSE IF hit THEN http_cache[url] ELSE fetched
              before == IF requested THEN disk[name] ELSE "absent"
              done == TryDownload(url, title, fetch, before)
          IN  /\ hit => requested /\ http_cache[url] # NoFetch
              /\ IF requested /\ ~hit THEN fetched \in Fetches ELSE fetched = NoFetch
              /\ disk' = IF requested THEN [disk EXCEPT ![name] = done.file] ELSE disk
              /\ http_cache' =
                    IF requested /\ ~hit /\ Cacheable(fetch)
                    THEN [http_cache EXCEPT ![url] = fetch] ELSE http_cache
              /\ dl_calls' = Append(dl_calls,
                    [url |-> url, title |-> title, name |-> name, fetch |-> fetch,
                     requested |-> requested, network |-> requested /\ ~hit,
                     before |-> before, branch |-> done.branch,
                     path |-> done.path, raised |-> ExceptClause(done.branch),
                     after |-> done.file])
    /\ dl_pc' = IF dl_pc = "first" THEN "second" ELSE "done"
    /\ UNCHANGED <<qvars, dvars, evars, svars, rvars, bvars, tvars>>

IdleP ==
    /\ disk = [n \in FileNames |-> "absent"]
    /\ http_cache = [u \in Urls |-> NoFetch]
    /\ dl_pc = "idle"
    /\ dl_calls = <<>>

IdleR ==
    /\ run_config = "ok"
    /\ run_resume = FALSE
    /\ files = <<>>
    /\ run_pc = "idle"
    /\ doc_index = 1
    /\ run_calls = <<>>
    /\ saves = <<>>
    /\ run_report = <<>>
    /\ ledger = {}
    /\ exit_status = -1

\* No BibTeX update is running.
IdleB ==
    /\ bib_database = <<>>
    /\ url_mappings = <<>>
    /\ bib_updates = <<>>

\* No processor is tracking downloads.
IdleT ==
    /\ downloaded_pdfs = <<>>
    /\ temp_files = {}
    /\ handed = <<>>

IdleY == IdleP /\ IdleR /\ IdleB /\ IdleT

\* ------------------------------------------------------- PDF discovery
\* No result: discover_urls_with_source, find_pdf_with_source return None.
\* A result names the file by the query that cited it and its position
\* among that query's PDF URLs; url is "None" when no source URL is returned.
NoFind == [found |-> FALSE, kind |-> "none", index |-> 0, url |-> "None"]
Found(kind, index, url) == [found |-> TRUE, kind |-> kind, index |-> index, url |-> url]

\* What the download of one PDF URL meets: the server refuses ("fail"), the
\* body is received and is not a PDF ("invalid"), or it is a PDF ("ok").
DownloadOutcomes == {"fail", "invalid", "ok"}
FetchFor(outcome) ==
    CASE outcome = "fail" -> [NoFetch EXCEPT !.get = "http_error"]
      [] outcome = "invalid" ->
           [get |-> "ok", pdf_type |-> TRUE, open_ok |-> TRUE,
            chunks |-> <<HeaderLength>>, broken |-> FALSE, header |-> FALSE]
      [] outcome = "ok" ->
           [get |-> "ok", pdf_type |-> TRUE, open_ok |-> TRUE,
            chunks |-> <<HeaderLength>>, broken |-> FALSE, header |-> TRUE]

\* self.pdf_downloader.download_pdf(pdf_url, title): the download of
\* PDFSearcher._download_pdf to a target that does not exist yet
download_pdf(outcome) == TryDownload("https://b.org/q", "A Paper", FetchFor(outcome), "absent")

\* "if downloaded_path:"
Ok(outcome) == download_pdf(outcome).path

\* one download_pdf call, for the log: the query it came from, did it return
\* a path, the branch of the download it ended in, what it left on disk
DownloadEntry(kind, outcome) ==
    [kind |-> kind, ok |-> Ok(outcome), branch |-> download_pdf(outcome).branch,
     file |-> download_pdf(outcome).file]

\* What download_pdf gives for each PDF URL of one reply, in order.
DownloadLists == SeqsUpTo(DownloadOutcomes, MaxCandidates)

\* index of the first successful download, 0 for none
RECURSIVE FirstOk(_, _)
FirstOk(list, k) ==
    IF k > Len(list) THEN 0
    ELSE IF Ok(list[k]) THEN k
    ELSE FirstOk(list, k + 1)

\* the download_pdf calls of one reply, for the log
Downloaded(kind, list) == [k \in 1..Len(list) |-> DownloadEntry(kind, list[k])]

\* What make_request gives GoogleGroundingStrategy.discover_urls: it raises,
\* the response has no candidates, the first candidate has no
\* groundingMetadata, or it has, and the grounding chunks resolve to the PDF
\* URLs whose downloads are listed (none when there is no chunk with a uri).
GroundingReplies ==
    {[kind |-> k, downloads |-> <<>>] : k \in {"raise", "no_candidates", "no_grounding"}}
    \cup {[kind |-> "citations", downloads |-> d] : d \in DownloadLists}

\* GoogleGroundingStrategy.discover_urls lines 96-140: the relaxed query
\* follows when the strict reply had grounding metadata and no PDF was
\* downloaded; an exception, no candidates and no grounding metadata return.
RelaxedFollows(reply) ==
    reply.kind = "citations" /\ FirstOk(reply.downloads, 1) = 0

\* GoogleGroundingStrategy.discover_urls_with_source after the strict query
\* of discover_urls (lines 66-140, 224-232).
grounding_strict_query ==
    /\ strategy = "grounding_strategy"
    /\ find_pc = "strict"
    /\ IF ~has_title
       THEN /\ find_pc' = "returned"
            /\ find_result' = NoFind
            /\ UNCHANGED <<search_requests, downloads>>
       ELSE \E reply \in GroundingReplies :
            /\ search_requests' = Append(search_requests,
                                         [by |-> "grounding", kind |-> "strict"])
            /\ downloads' = downloads \o Downloaded("strict", reply.downloads)
            /\ IF RelaxedFollows(reply)
               THEN find_pc' = "relaxed" /\ UNCHANGED find_result
               ELSE /\ find_pc' = "returned"
                    /\ find_result' =
                          IF FirstOk(reply.downloads, 1) > 0
                          THEN Found("strict", FirstOk(reply.downloads, 1), "None")
                          ELSE NoFind
    /\ UNCHANGED <<strategy, chained, has_title, api_client, candidates,
                   candidate_index, tried, strategy_calls>>
    /\ UNCHANGED <<qvars, dvars, evars, yvars>>

\* The relaxed query of discover_urls (lines 146-222).
grounding_relaxed_query ==
    /\ strategy = "grounding_strategy"
    /\ find_pc = "relaxed"
    /\ \E reply \in GroundingReplies :
          /\ search_requests' = Append(search_requests,
                                       [by |-> "grounding", kind |-> "relaxed"])
          /\ downloads' = downloads \o Downloaded("relaxed", reply.downloads)
          /\ find_pc' = "returned"
          /\ find_result' =
                IF FirstOk(reply.downloads, 1) > 0
                THEN Found("relaxed", FirstOk(reply.downloads, 1), "None")
                ELSE NoFind
    /\ UNCHANGED <<strategy, chained, has_title, api_client, candidates,
                   candidate_index, tried, strategy_calls>>
    /\ UNCHANGED <<qvars, dvars, evars, yvars>>

\* What one _search_qwant call and the download of its URL give.
QwantReplies ==
    {[url |-> FALSE, download |-> "fail"]}
    \cup {[url |-> TRUE, download |-> d] : d \in DownloadOutcomes}

\* the download_pdf call of one Qwant reply, for the log
QwantDownloaded(kind, reply) ==
    IF reply.url THEN <<DownloadEntry(kind, reply.download)>> ELSE <<>>

\* "if downloaded_path: return downloaded_path, pdf_url" else "return None, None"
QwantFound(kind, reply) ==
    IF reply.url /\ Ok(reply.download) THEN Found(kind, 1, "source") ELSE NoFind

\* QwantSearchStrategy._search_and_download_pdf_with_source up to the end of
\* the strict search (lines 397-446): a URL is downloaded and the call
\* returns, whether the download succeeded or not; no URL goes on to the
\* relaxed search.
qwant_strict_query ==
    /\ strategy = "qwant_strategy"
    /\ find_pc = "strict"
    /\ IF ~has_title
       THEN /\ find_pc' = "returned"
            /\ find_result' = NoFind
            /\ UNCHANGED <<search_requests, downloads>>
       ELSE \E reply \in QwantReplies :
            /\ search_requests' = Append(search_requests,
                                         [by |-> "qwant", kind |-> "strict"])
            /\ downloads' = downloads \o QwantDownloaded("strict", reply)
            /\ IF reply.url
               THEN find_pc' = "returned" /\ find_result' = QwantFound("strict", reply)
               ELSE find_pc' = "relaxed" /\ UNCHANGED find_result
    /\ UNCHANGED <<strategy, chained, has_title, api_client, candidates,
                   candidate_index, tried, strategy_calls>>
    /\ UNCHANGED <<qvars, dvars, evars, yvars>>

\* The relaxed search of the same method (lines 447-484).
qwant_relaxed_query ==
    /\ strategy = "qwant_strategy"
    /\ find_pc = "relaxed"
    /\ \E reply \in QwantReplies :
          /\ search_requests' = Append(search_requests,
                                       [by |-> "qwant", kind |-> "relaxed"])
          /\ downloads' = downloads \o QwantDownloaded("relaxed", reply)
          /\ find_pc' = "returned"
          /\ find_result' = QwantFound("relaxed", reply)
    /\ UNCHANGED <<strategy, chained, has_title, api_client, candidates,
                   candidate_index, tried, strategy_calls>>
    /\ UNCHANGED <<qvars, dvars, evars, yvars>>

\* What one search of an engine gives PDFFinder: does the engine return
\* URLs (none also when its request raised), and what download_pdf gives
\* for each URL that resolve_and_extract_pdfs keeps.
EngineReplies ==
    {[urls |-> FALSE, candidates |-> <<>>]}
    \cup {[urls |-> TRUE, candidates |-> d] : d \in DownloadLists}

\* the engine a finder was built with
EngineOf(finder) == IF finder = "grounding_finder" THEN "grounding" ELSE "qwant"

\* PDFFinder.find_pdf_with_source lines 60-77 with the strict search of
\* GoogleGroundingEngine.search_pdfs or QwantEngine.search_pdfs: the relaxed
\* search follows when the strict one returned no URL.
engine_strict_query ==
    /\ strategy \in {"grounding_finder", "qwant_finder"}
    /\ find_pc = "strict"
    /\ IF ~has_title
       THEN /\ find_pc' = "returned"
            /\ find_result' = NoFind
            /\ UNCHANGED <<search_requests, candidates>>
       ELSE \E reply \in EngineReplies :
            /\ search_requests' = Append(search_requests,
                                         [by |-> EngineOf(strategy), kind |-> "strict"])
            /\ candidates' = reply.candidates
            /\ find_pc' = IF reply.urls THEN "candidates" ELSE "relaxed"
            /\ UNCHANGED find_result
    /\ UNCHANGED <<strategy, chained, has_title, api_client, candidate_index,
                   downloads, tried, strategy_calls>>
    /\ UNCHANGED <<qvars, dvars, evars, yvars>>

\* The relaxed search of search_pdfs; "if not pdf_urls: return None".
engine_relaxed_query ==
    /\ strategy \in {"grounding_finder", "qwant_finder"}
    /\ find_pc = "relaxed"
    /\ \E reply \in EngineReplies :
          /\ search_requests' = Append(search_requests,
                                       [by |-> EngineOf(strategy), kind |-> "relaxed"])
          /\ candidates' = reply.candidates
          /\ find_pc' = IF reply.urls THEN "candidates" ELSE "returned"
          /\ UNCHANGED find_result
    /\ UNCHANGED <<strategy, chained, has_title, api_client, candidate_index,
                   downloads, tried, strategy_calls>>
    /\ UNCHANGED <<qvars, dvars, evars, yvars>>

\* confidence in hundredths; the threshold of "confidence >= 0.7"
ConfidenceThreshold == 70
Confidences == {0, 69, 70, 100}

\* What the verification of one downloaded candidate meets: "error" when
\* reading the file, the request, extract_response or json.loads raises,
\* else the matches and confidence of the parsed reply.
NoVerification == [status |-> "skipped", matches |-> FALSE, confidence |-> 0]
VerificationOutcomes ==
    {[status |-> "error", matches |-> FALSE, confidence |-> 0]}
    \cup [status : {"result"}, matches : BOOLEAN, confidence : Confidences]

\* Mutant: the confidence is not required.
verify_pdf_match_any_confidence(client, v) ==
    IF ~client THEN TRUE
    ELSE IF v.status = "error" THEN TRUE
    ELSE v.matches

\* PDFFinder._verify_pdf_match: True without an API client and on any
\* exception, else matches and confidence >= 0.7
verify_pdf_match(client, v) ==
    IF ~client THEN TRUE
    ELSE IF v.status = "error" THEN TRUE
    ELSE v.matches /\ v.confidence >= ConfidenceThreshold

\* the kind of the query the candidates came from
CandidatesKind == search_requests[Len(search_requests)].kind

\* One iteration of "for i, pdf_url in enumerate(resolved_urls)" (lines
\* 80-111): a failed download continues; a verified candidate is returned
\* with its URL; any other is removed and the next one tried.
finder_try_candidate ==
    /\ strategy \in {"grounding_finder", "qwant_finder"}
    /\ find_pc = "candidates"
    /\ candidate_index <= Len(candidates)
    /\ downloads' = Append(downloads,
                           DownloadEntry(CandidatesKind, candidates[candidate_index]))
    /\ IF ~Ok(candidates[candidate_index])
       THEN /\ candidate_index' = candidate_index + 1
            /\ UNCHANGED <<find_pc, tried, find_result>>
       ELSE \E v \in IF api_client THEN VerificationOutcomes ELSE {NoVerification} :
            /\ tried' = Append(tried,
                               [index |-> candidate_index,
                                verification |-> v,
                                accepted |-> verify_pdf_match(api_client, v),
                                removed |-> ~verify_pdf_match(api_client, v)])
            /\ IF verify_pdf_match(api_client, v)
               THEN /\ find_pc' = "returned"
                    /\ find_result' = Found(CandidatesKind, candidate_index, "source")
                    /\ UNCHANGED candidate_index
               ELSE /\ candidate_index' = candidate_index + 1
                    /\ UNCHANGED <<find_pc, find_result>>
    /\ UNCHANGED <<strategy, chained, has_title, api_client, search_requests,
                   candidates, strategy_calls>>
    /\ UNCHANGED <<qvars, dvars, evars, yvars>>

\* "return None" after the loop (line 115)
finder_return ==
    /\ strategy \in {"grounding_finder", "qwant_finder"}
    /\ find_pc = "candidates"
    /\ candidate_index > Len(candidates)
    /\ find_pc' = "returned"
    /\ find_result' = NoFind
    /\ UNCHANGED <<strategy, chained, has_title, api_client, search_requests,
                   candidates, candidate_index, downloads, tried, strategy_calls>>
    /\ UNCHANGED <<qvars, dvars, evars, yvars>>

\* The fallback-chaining strategy (FallbackSearchStrategy, which cli.fulltext
\* builds from the API client, the URL resolver and the downloader): the
\* grounded strategy is asked first.
fallback_grounded ==
    /\ chained
    /\ find_pc = "fallback"
    /\ strategy' = "grounding_strategy"
    /\ find_pc' = "strict"
    /\ strategy_calls' = <<[strategy |-> "grounded", returned |-> "pending"]>>
    /\ UNCHANGED <<chained, has_title, api_client, search_requests, candidates,
                   candidate_index, downloads, tried, find_result>>
    /\ UNCHANGED <<qvars, dvars, evars, yvars>>

\* what a strategy of the chain returned
Returned(r) == IF r.found THEN "result" ELSE "nothing"

\* Mutant: the direct strategy is invoked whatever the grounded one returned.
DirectNeeded_Always(r) == TRUE

\* the direct strategy is invoked only if the grounded one returned nothing
DirectNeeded(r) == ~r.found

\* The grounded strategy returned nothing: the direct strategy is asked.
fallback_direct ==
    /\ chained
    /\ find_pc = "returned"
    /\ strategy = "grounding_strategy"
    /\ DirectNeeded(find_result)
    /\ strategy' = "qwant_strategy"
    /\ find_pc' = "strict"
    /\ strategy_calls' =
          <<[strategy_calls[1] EXCEPT !.returned = Returned(find_result)],
            [strategy |-> "direct", returned |-> "pending"]>>
    /\ UNCHANGED <<chained, has_title, api_client, search_requests, candidates,
                   candidate_index, downloads, tried, find_result>>
    /\ UNCHANGED <<qvars, dvars, evars, yvars>>

\* The chain returns what the last strategy it asked returned.
fallback_return ==
    /\ chained
    /\ find_pc = "returned"
    /\ strategy = "qwant_strategy" \/ ~DirectNeeded(find_result)
    /\ find_pc' = "done"
    /\ strategy_calls' =
          [strategy_calls EXCEPT ![Len(strategy_calls)].returned = Returned(find_result)]
    /\ UNCHANGED <<strategy, chained, has_title, api_client, search_requests,
                   candidates, candidate_index, downloads, tried, find_result>>
    /\ UNCHANGED <<qvars, dvars, evars, yvars>>

IdleS ==
    /\ strategy = "idle"
    /\ chained = FALSE
    /\ has_title = FALSE
    /\ api_client = FALSE
    /\ find_pc = "idle"
    /\ search_requests = <<>>
    /\ candidates = <<>>
    /\ candidate_index = 1
    /\ downloads = <<>>
    /\ tried = <<>>
    /\ find_result = NoFind
    /\ strategy_calls = <<>>

IdleX == IdleE /\ IdleS /\ IdleY

\* --------------------------------------------- load_queries: one section
\* The if/elif chain over the normalised key of one parameter line: the
\* params key it writes and the value, PyAbsent when the line is ignored.
ParseLine(name, raw) ==
    CASE name = "temperature" ->
           [key |-> "temperature",
            val |-> IF ParseFloat(raw) >= 0 THEN PyFloat(ParseFloat(raw)) ELSE PyAbsent]
      [] name = "model-name" -> [key |-> "model", val |-> PyStr(raw)]
      [] name = "google-search" ->
           [key |-> "google_search",
            val |-> IF Lower(raw) \in TrueWords THEN PyBool(TRUE)
                    ELSE IF Lower(raw) \in FalseWords THEN PyBool(FALSE)
                    ELSE PyAbsent]
      [] name = "semantic-scholar" ->
           [key |-> "semantic_scholar",
            val |-> IF Lower(raw) \in TrueWords THEN PyBool(TRUE)
                    ELSE IF Lower(raw) \in FalseWords THEN PyBool(FALSE)
                    ELSE PyAbsent]
      [] name = "limit" ->
           [key |-> "limit",
            val |-> IF ParseInt(raw) >= 0 THEN PyInt(ParseInt(raw)) ELSE PyAbsent]
      [] name = "relevance-search" ->
           [key |-> "relevance_search", val |-> PyBool(Lower(raw) \in TrueWords)]
      [] name = "filter-on" -> [key |-> "filter_on", val |-> PyStr(raw)]
      [] name = "offset" -> [key |-> "ss_offset", val |-> PyStr(raw)]
      [] name = "year" -> [key |-> "ss_year", val |-> PyStr(raw)]

\* current_params after the loop over the lines of a section
CurrentParams(lines) ==
    [k \in ParamKeys |->
        IF \E n \in LineNames : lines[n] # NoLine /\ ParseLine(n, lines[n]).key = k
        THEN LET n == CHOOSE n \in LineNames :
                        lines[n] # NoLine /\ ParseLine(n, lines[n]).key = k
             IN ParseLine(n, lines[n]).val
        ELSE PyAbsent]

\* Mutant: the search-tuning keys treated as one-shot as well.
one_shot_params_with_tuning ==
    {"semantic_scholar", "filter_on", "relevance_search", "limit", "ss_offset", "ss_year"}

one_shot_params == {"semantic_scholar", "filter_on", "relevance_search"}

PersistentParams(current) == DictRestrict(current, ParamKeys \ one_shot_params)

OneshotParams(current) == DictRestrict(current, one_shot_params)

\* merged_params = accumulated_params.copy(); .update(persistent); .update(oneshot)
MergedParams(accumulated, current) ==
    DictUpdate(DictUpdate(accumulated, PersistentParams(current)), OneshotParams(current))

\* Mutant: every parameter of the section is carried forward.
NextAccumulated_AllParams(accumulated, current) == DictUpdate(accumulated, current)

\* accumulated_params.update(persistent_params)
NextAccumulated(accumulated, current) == DictUpdate(accumulated, PersistentParams(current))

\* structure after re.findall / json.loads(json_blocks[0]); "None" when there
\* is no block or json.loads raises JSONDecodeError
JsonStructure(json) ==
    CASE json = "object" -> "object"
      [] json = "empty_object" -> "empty_object"
      [] json = "list" -> "list"
      [] OTHER -> "None"

\* truth value of QueryConfig.structure
StructureTruthy(structure) == structure = "object"

\* QueryConfig(text=.., params=.., structure=.., filter_on=params.get("filter_on"))
QueryConfig(params, structure) ==
    [params |-> params, structure |-> structure, filter_on |-> params["filter_on"]]

\* pydantic rejects a structure that is not a dict (Optional[Dict[str, Any]])
QueryConfigValid(structure) == structure # "list"

\* Mutant: the validation tests for a structure instead of its absence.
FilterWithoutStructure_Inverted(query_config) ==
    Truthy(query_config.filter_on) /\ StructureTruthy(query_config.structure)

\* The validation of filter_on after a QueryConfig is built.
FilterWithoutStructure(query_config) ==
    Truthy(query_config.filter_on) /\ ~StructureTruthy(query_config.structure)

\* One iteration of "for section_idx, section in enumerate(query_sections)".
load_queries_section ==
    /\ lq_pc = "loop"
    /\ section_idx <= Len(sections)
    /\ LET section == sections[section_idx]
           current_params == CurrentParams(section.lines)
           merged_params == MergedParams(accumulated_params, current_params)
           structure == JsonStructure(section.json)
           query_config == QueryConfig(merged_params, structure)
       IN IF section.empty
          THEN /\ section_idx' = section_idx + 1
               /\ UNCHANGED <<accumulated_params, queries, query_section, lq_pc>>
          ELSE /\ accumulated_params' = NextAccumulated(accumulated_params, current_params)
               /\ IF ~section.text
                  THEN /\ section_idx' = section_idx + 1
                       /\ UNCHANGED <<queries, query_section, lq_pc>>
                  ELSE IF ~QueryConfigValid(structure)
                  THEN /\ lq_pc' = "raised"
                       /\ UNCHANGED <<section_idx, queries, query_section>>
                  ELSE IF FilterWithoutStructure(query_config)
                  THEN /\ lq_pc' = "exit1"
                       /\ UNCHANGED <<section_idx, queries, query_section>>
                  ELSE /\ queries' = Append(queries, query_config)
                       /\ query_section' = Append(query_section, section_idx)
                       /\ section_idx' = section_idx + 1
                       /\ UNCHANGED lq_pc
    /\ UNCHANGED <<sections, network_calls>>
    /\ UNCHANGED <<dvars, xvars>>

\* "return queries" after the last section
load_queries_return ==
    /\ lq_pc = "loop"
    /\ section_idx > Len(sections)
    /\ lq_pc' = "returned"
    /\ UNCHANGED <<sections, section_idx, accumulated_params, queries, query_section,
                   network_calls>>
    /\ UNCHANGED <<dvars, xvars>>

\* The first LLM request of a run: process_pdf iterates self.queries, which
\* DocumentAnalyzer.__init__ set from the value load_queries returned.
first_request ==
    /\ lq_pc = "returned"
    /\ Len(queries) > 0
    /\ network_calls = 0
    /\ network_calls' = 1
    /\ UNCHANGED <<sections, section_idx, accumulated_params, queries, query_section, lq_pc>>
    /\ UNCHANGED <<dvars, xvars>>

\* No document is being processed.
IdleD ==
    /\ doc = NoDoc
    /\ use_qwant_strategy = FALSE
    /\ pc = "idle"
    /\ actual_path = "None"
    /\ pdf_data = "None"
    /\ metadata = MetaNone
    /\ document_data = NoDocument
    /\ successful_queries = 0
    /\ query_index = 1
    /\ requests = <<>>
    /\ result = NoResult
    /\ sourced = NotSourced
    /\ discovered = NotDiscovered
    /\ analyzer_document = NoAnalyzerDocument
    /\ report = NoReport

InitQ ==
    /\ sections \in SeqsUpTo(Sections, MaxSections)
    /\ section_idx = 1
    /\ accumulated_params = EmptyParams
    /\ queries = <<>>
    /\ query_section = <<>>
    /\ lq_pc = "loop"
    /\ network_calls = 0
    /\ IdleD
    /\ IdleX

NextQ == load_queries_section \/ load_queries_return \/ first_request

SpecQ == InitQ /\ [][NextQ]_vars

\* ------------------------------------------- process_document: sourcing
PdfBytes == "%PDF-1.4 body"

\* DocumentProcessor._is_url
is_url(path) == StrTruthy(path) /\ path = "https://host/paper.pdf"

\* os.path.dirname(bibtex_file_path) if bibtex_file_path else None
BibtexDir(bibtex_file_path) == IF bibtex_file_path = "refs/lib.bib" THEN "refs" ELSE "None"

\* What the file system, the network and the search service answer during
\* sourcing: download_pdf succeeds or not, os.path.isfile of the path and of
\* the path under the bibliography's directory, open/read of the chosen file,
\* the search strategy's outcome ("error": it failed and caught the failure
\* itself; "raise": an exception escaped it), open/read of the file it
\* downloaded.
ReadOutcomes == {"raise", "empty", "data"}
SearchOutcomes == {"no_result", "error", "raise", "found"}
SourcingEnvs ==
    [download : {"fail", "ok"}, isfile : BOOLEAN, isfile_bibdir : BOOLEAN,
     read : ReadOutcomes, search : SearchOutcomes, search_read : ReadOutcomes]

\* f.read() of a file that opened
ReadBytes(outcome) == IF outcome = "data" THEN PdfBytes ELSE ""

\* DocumentProcessor._download_pdf_from_url: the local path, or None
download_pdf_from_url(url, outcome) ==
    IF outcome = "ok" THEN "downloads/paper_1a2b.pdf" ELSE "None"

\* Mutant: the bibliography's directory is tried before the path itself.
find_pdf_file_bibdir_first(pdf_path, bibtex_dir, isfile, isfile_bibdir) ==
    IF StrTruthy(bibtex_dir) /\ isfile_bibdir THEN "refs/paper.pdf"
    ELSE IF isfile THEN pdf_path
    ELSE "None"

\* DocumentProcessor._find_pdf_file
find_pdf_file(pdf_path, bibtex_dir, isfile, isfile_bibdir) ==
    IF isfile THEN pdf_path
    ELSE IF StrTruthy(bibtex_dir) /\ isfile_bibdir THEN "refs/paper.pdf"
    ELSE "None"

\* SearchStrategy.discover_urls_with_source of the configured strategy: None
\* without a title, when nothing is found and when the search fails inside
\* (both strategies catch their own exceptions); else (path, source URL),
\* where the grounding strategy gives None as the source URL.
NoSearchResult == [found |-> FALSE, path |-> "None", url |-> "None"]
discover_urls_with_source(meta, qwant, outcome) ==
    IF MetaTitle(meta) = "" \/ outcome # "found"
    THEN NoSearchResult
    ELSE [found |-> TRUE, path |-> "downloads/search_9f.pdf",
          url |-> IF qwant THEN "https://mirror/paper.pdf" ELSE "None"]

\* DocumentProcessor._search_for_pdf: (None, None) without metadata and
\* when the strategy raises
search_for_pdf(meta, qwant, outcome) ==
    IF ~MetaTruthy(meta) \/ outcome = "raise" THEN NoSearchResult
    ELSE discover_urls_with_source(meta, qwant, outcome)

\* How often _search_for_pdf calls the strategy: not without metadata, else
\* once (lines 113-121).
StrategyCalls(meta) == IF MetaTruthy(meta) THEN 1 ELSE 0

\* Lines 198-216: the direct URL download or the local lookup.
DirectPath(d, env) ==
    IF ~StrTruthy(d.pdf_path) THEN "None"
    ELSE IF is_url(d.pdf_path) THEN download_pdf_from_url(d.pdf_path, env.download)
    ELSE find_pdf_file(d.pdf_path, BibtexDir(d.bibtex_file_path), env.isfile,
                       env.isfile_bibdir)

\* Mutant: the search is made without looking at the entry.
HasEntry_Always(d) == TRUE

\* Mutant: the BibTeX entry is never taken as a fallback.
HasEntry_Never(d) == FALSE

\* if entry_text and bibtex_key
HasEntry(d) == StrTruthy(d.entry_text) /\ StrTruthy(d.bibtex_key)

\* What os.path.isfile answered in _find_pdf_file, for the calls it made.
Answer(b) == IF b THEN "yes" ELSE "no"

IsfileAnswer(d, env) ==
    IF StrTruthy(d.pdf_path) /\ ~is_url(d.pdf_path) THEN Answer(env.isfile)
    ELSE "not_tried"

IsfileBibdirAnswer(d, env) ==
    IF /\ StrTruthy(d.pdf_path)
       /\ ~is_url(d.pdf_path)
       /\ ~env.isfile
       /\ StrTruthy(BibtexDir(d.bibtex_file_path))
    THEN Answer(env.isfile_bibdir)
    ELSE "not_tried"

\* Lines 191-281: the locals of process_document when sourcing ends, "failed"
\* for "return None, False", and what sourcing went through (found: a file
\* or download was obtained directly; read: the outcome of open/read;
\* search: "found" or "none" for what _search_for_pdf returned; "not_tried"
\* when the step was not taken).
Sourcing(d, qwant, env) ==
    LET direct == DirectPath(d, env)
        from_url == is_url(d.pdf_path) /\ StrTruthy(direct)
        meta == extract_metadata(d.entry_text, d.bibtex_key)
        found == search_for_pdf(meta, qwant, env.search)
    IN IF StrTruthy(direct)
       THEN [failed |-> env.read = "raise",
             actual_path |-> direct,
             pdf_data |-> IF env.read = "raise" THEN "None" ELSE ReadBytes(env.read),
             metadata |-> MetaNone,
             pdf_source |-> IF from_url THEN "url_download"
                            ELSE IF env.read = "data" THEN "local_file" ELSE "unknown",
             pdf_url |-> IF from_url THEN d.pdf_path ELSE "None",
             trace |-> [found |-> TRUE, read |-> env.read, search |-> "not_tried",
                       searches |-> 0,
                       isfile |-> IsfileAnswer(d, env),
                       isfile_bibdir |-> IsfileBibdirAnswer(d, env)]]
       ELSE IF ~HasEntry(d)
       THEN [failed |-> TRUE, actual_path |-> "None", pdf_data |-> "None",
             metadata |-> MetaNone, pdf_source |-> "unknown", pdf_url |-> "None",
             trace |-> [found |-> FALSE, read |-> "not_tried", search |-> "not_tried",
                       searches |-> 0,
                       isfile |-> IsfileAnswer(d, env),
                       isfile_bibdir |-> IsfileBibdirAnswer(d, env)]]
       ELSE IF ~found.found
       THEN [failed |-> FALSE, actual_path |-> "None", pdf_data |-> "None",
             metadata |-> meta, pdf_source |-> "metadata_only", pdf_url |-> "None",
             trace |-> [found |-> FALSE, read |-> "not_tried", search |-> "none",
                       searches |-> StrategyCalls(meta),
                       isfile |-> IsfileAnswer(d, env),
                       isfile_bibdir |-> IsfileBibdirAnswer(d, env)]]
       ELSE [failed |-> FALSE,
             actual_path |-> found.path,
             pdf_data |-> IF env.search_read = "raise" THEN "None"
                          ELSE ReadBytes(env.search_read),
             metadata |-> meta,
             pdf_source |-> CASE env.search_read = "raise" -> "metadata_only"
                              [] env.search_read = "empty" -> "unknown"
                              [] OTHER -> "searched_download",
             pdf_url |-> IF env.search_read = "raise" THEN "None" ELSE found.url,
             trace |-> [found |-> FALSE, read |-> env.search_read, search |-> "found",
                       searches |-> StrategyCalls(meta),
                       isfile |-> IsfileAnswer(d, env),
                       isfile_bibdir |-> IsfileBibdirAnswer(d, env)]]

\* Mutant: is_metadata_only is taken from the absence of a local path.
NewDocument_FlagFromPath(d, src) ==
    [id |-> 1,
     file_path |-> IF StrTruthy(src.actual_path) THEN src.actual_path ELSE d.pdf_path,
     bibtex_key |-> d.bibtex_key,
     bibtex_metadata |-> IF MetaTruthy(src.metadata) THEN src.metadata ELSE MetaDict({}, ""),
     is_metadata_only |-> ~StrTruthy(src.actual_path),
     pdf_source |-> src.pdf_source,
     pdf_url |-> src.pdf_url,
     is_filtered_out |-> FALSE,
     filtered_at_query |-> 0,
     filter_reason |-> "None",
     queries |-> <<>>]

\* Lines 283-296: document_data = {...}
NewDocument(d, src) ==
    [id |-> 1,
     file_path |-> IF StrTruthy(src.actual_path) THEN src.actual_path ELSE d.pdf_path,
     bibtex_key |-> d.bibtex_key,
     bibtex_metadata |-> IF MetaTruthy(src.metadata) THEN src.metadata ELSE MetaDict({}, ""),
     is_metadata_only |-> src.pdf_source = "metadata_only",
     pdf_source |-> src.pdf_source,
     pdf_url |-> src.pdf_url,
     is_filtered_out |-> FALSE,
     filtered_at_query |-> 0,
     filter_reason |-> "None",
     queries |-> <<>>]

\* process_document up to the start of the query loop.
process_document_source ==
    /\ pc = "source"
    /\ \E env \in SourcingEnvs :
          LET src == Sourcing(doc, use_qwant_strategy, env)
          IN /\ sourced' = src.trace
             /\ IF src.failed
                THEN /\ pc' = "returned"
                     /\ result' = [returned |-> TRUE, has_record |-> FALSE, success |-> FALSE]
                     /\ UNCHANGED <<actual_path, pdf_data, metadata, document_data>>
                ELSE /\ pc' = "loop"
                     /\ actual_path' = src.actual_path
                     /\ pdf_data' = src.pdf_data
                     /\ metadata' = src.metadata
                     /\ document_data' = NewDocument(doc, src)
                     /\ UNCHANGED result
    /\ UNCHANGED <<doc, use_qwant_strategy, successful_queries, query_index, requests,
                   discovered, analyzer_document, report>>
    /\ UNCHANGED <<sections, section_idx, accumulated_params, queries, query_section,
                   lq_pc, network_calls>>
    /\ UNCHANGED xvars

\* ----------------------------------------- process_document: query loop
\* The queries a caller passes: plain, grounded (google-search), Semantic
\* Scholar, structured, and a filter with a structure (the only filters
\* load_queries lets through).
DocParams(google_search, semantic_scholar, filter_on) ==
    [EmptyParams EXCEPT !["google_search"] = google_search,
                        !["semantic_scholar"] = semantic_scholar,
                        !["filter_on"] = filter_on]

PlainQuery == QueryConfig(EmptyParams, "None")
GroundedQuery == QueryConfig(DocParams(PyBool(TRUE), PyAbsent, PyAbsent), "None")
ScholarQuery == QueryConfig(DocParams(PyAbsent, PyBool(TRUE), PyAbsent), "None")
StructuredQuery == QueryConfig(EmptyParams, "object")
FilterQuery == QueryConfig(DocParams(PyAbsent, PyAbsent, PyStr("relevant")), "object")

DocQueries == {PlainQuery, GroundedQuery, ScholarQuery, StructuredQuery, FilterQuery}

\* Longer lists: a query before a filter and one after it, and a grounded
\* query before and after other queries.
LongQueryLists ==
    {<<PlainQuery, FilterQuery, PlainQuery>>,
     <<GroundedQuery, StructuredQuery, PlainQuery>>,
     <<PlainQuery, GroundedQuery, FilterQuery>>}

\* The query lists of a process_document call.
QueryLists == SeqsUpTo(DocQueries, MaxQueries) \cup LongQueryLists

\* The queries of a process_pdf run, which makes no use of grounding and
\* goes through every query of self.queries, the Semantic Scholar ones too.
PdfQueries == {PlainQuery, ScholarQuery, StructuredQuery, FilterQuery}

\* The response texts tried for a query: every text of Contents for a
\* filter, free text and JSON for a structured query, JSON for a grounded
\* query (which asks for no structure), free text for a plain one.
ContentsFor(q) ==
    IF Truthy(q.filter_on) THEN Contents
    ELSE IF StructureTruthy(q.structure) THEN {"Yes, it is.", "{\"relevant\": true}"}
    ELSE IF Truthy(q.params["google_search"]) THEN {"{\"relevant\": false}"}
    ELSE {"Yes, it is."}

\* make_request, the log write or extract_response raises, or the text
\* and the grounding metadata come back; grounding needs the search tool.
RequestOutcomes(q) ==
    {[kind |-> "raise", content |-> "", grounding |-> FALSE]}
    \cup {[kind |-> "ok", content |-> c, grounding |-> g] :
            c \in ContentsFor(q),
            g \in IF Truthy(q.params["google_search"]) THEN BOOLEAN ELSE {FALSE}}

\* What in-loop discovery meets: the strategy's outcome, os.path.exists of
\* the path it returned, open/read of that file.
DiscoveryEnvs == [search : SearchOutcomes, exists : BOOLEAN, read : ReadOutcomes]
NoDiscovery == [search |-> "no_result", exists |-> FALSE, read |-> "raise"]

\* Mutant: a text that fails to parse is replaced by the empty text.
ParsedResponse_DropsText(q, content) ==
    IF ~StructureTruthy(q.structure) THEN PyText(content)
    ELSE IF json_loads(content).t # "error" THEN json_loads(content)
    ELSE PyText("")

\* Lines 441-451: json.loads when a structure was requested, the raw text
\* when there is none or on JSONDecodeError.
ParsedResponse(q, content) ==
    IF StructureTruthy(q.structure) /\ json_loads(content).t # "error"
    THEN json_loads(content)
    ELSE PyText(content)

\* Mutant: a response that is no object is not looked at.
evaluate_filter_ignores_text(response, filter_field) ==
    IF response.t # "dict" THEN "pass"
    ELSE IF DictGet(response, filter_field).t # "bool" THEN "exit"
    ELSE IF ~DictGet(response, filter_field).b THEN "false"
    ELSE "pass"

\* Mutant: a false filter field lets processing continue.
evaluate_filter_never_stops(response, filter_field) ==
    IF response.t # "dict" THEN "unstructured"
    ELSE IF DictGet(response, filter_field).t # "bool" THEN "exit"
    ELSE "pass"

\* DocumentProcessor._evaluate_filter: "pass" returns True, "unstructured"
\* and "false" mark the record and return False, "exit" is sys.exit(1).
evaluate_filter(response, filter_field) ==
    IF response.t # "dict" THEN "unstructured"
    ELSE IF DictGet(response, filter_field).t # "bool" THEN "exit"
    ELSE IF ~DictGet(response, filter_field).b THEN "false"
    ELSE "pass"

\* Mutant: _evaluate_filter ends the loop and writes nothing.
MarkFiltered_Nothing(d, verdict, query_id) == d

\* The writes of _evaluate_filter to document_data.
MarkFiltered(d, verdict, query_id) ==
    IF verdict \in {"unstructured", "false"}
    THEN [d EXCEPT !.is_filtered_out = TRUE,
                   !.filtered_at_query = query_id,
                   !.filter_reason = IF verdict = "false" THEN "evaluated to False"
                                     ELSE "No structured response"]
    ELSE d

\* Lines 356-361: the condition of in-loop discovery.
DiscoveryApplies(q, grounding) ==
    /\ ~StrTruthy(pdf_data)
    /\ ~use_qwant_strategy
    /\ Truthy(q.params["google_search"])
    /\ grounding

\* Lines 314-333: the PDF payload when there is a body, else the text payload.
RequestMode(data) == IF StrTruthy(data) THEN "pdf" ELSE "text"

\* Mutant: an exception ends the loop.
AfterException_Abort(index) == Len(queries) + 1

\* Lines 478-485: "except Exception: ... continue" goes to the next query.
AfterException(index) == index + 1

\* Mutant: every returned record counts as a success.
Success_Always(count) == TRUE

\* Line 487: successful_queries > 0
Success(count) == count > 0

\* Mutant: a discovered file is adopted whenever there is no body.
AdoptsDiscovered_NoBody(found, exists) == found /\ exists

\* Lines 369-372: "if discovered_result and not actual_path" and
\* "if downloaded_path and os.path.exists(downloaded_path)".
AdoptsDiscovered(found, exists) == found /\ ~StrTruthy(actual_path) /\ exists

\* One iteration of "for i, query_info in enumerate(queries or [])".
process_document_query ==
    /\ pc = "loop"
    /\ query_index <= Len(queries)
    /\ LET q == queries[query_index]
           query_id == query_index
       IN IF Truthy(q.params["semantic_scholar"])
          THEN \* continue
               /\ query_index' = query_index + 1
               /\ UNCHANGED <<pc, actual_path, pdf_data, document_data,
                              successful_queries, requests, discovered>>
          ELSE IF ~StrTruthy(pdf_data) /\ metadata = MetaNone
          THEN \* format_metadata_for_prompt(None) raises outside the try
               /\ pc' = "raised"
               /\ UNCHANGED <<query_index, actual_path, pdf_data, document_data,
                              successful_queries, requests, discovered>>
          ELSE \E out \in RequestOutcomes(q) :
               \E denv \in IF out.kind = "ok" /\ DiscoveryApplies(q, out.grounding)
                            THEN DiscoveryEnvs ELSE {NoDiscovery} :
               /\ requests' = Append(requests,
                     [query_id |-> query_id,
                      mode |-> RequestMode(pdf_data),
                      raised |-> out.kind = "raise" \/ denv.search = "raise",
                      content |-> out.content])
               /\ IF out.kind = "raise" \/ denv.search = "raise"
                  THEN /\ query_index' = AfterException(query_index)
                       /\ UNCHANGED <<pc, actual_path, pdf_data, document_data,
                                      successful_queries, discovered>>
                  ELSE LET found == discover_urls_with_source(
                                       IF MetaTruthy(metadata) THEN metadata
                                       ELSE MetaDict({}, ""),
                                       FALSE, denv.search)
                           adopt == /\ DiscoveryApplies(q, out.grounding)
                                    /\ AdoptsDiscovered(found.found, denv.exists)
                           located ==
                               IF adopt
                               THEN [document_data EXCEPT
                                        !.file_path = found.path,
                                        !.pdf_source = "searched_download",
                                        !.pdf_url = found.url,
                                        !.is_metadata_only =
                                            IF denv.read = "data" THEN FALSE ELSE @]
                               ELSE document_data
                           parsed_response == ParsedResponse(q, out.content)
                           query_result == [query_id |-> query_id,
                                            response |-> parsed_response,
                                            grounding_metadata |-> out.grounding]
                           appended == [located EXCEPT
                                           !.queries = Append(@, query_result)]
                           verdict == IF Truthy(q.filter_on)
                                      THEN evaluate_filter(parsed_response, q.filter_on.s)
                                      ELSE "pass"
                       IN /\ actual_path' = IF adopt THEN found.path ELSE actual_path
                          /\ pdf_data' = IF adopt /\ denv.read # "raise"
                                         THEN ReadBytes(denv.read) ELSE pdf_data
                          /\ discovered' =
                                IF /\ discovered.at = 0
                                   /\ DiscoveryApplies(q, out.grounding)
                                   /\ found.found /\ denv.exists
                                THEN [at |-> query_id,
                                      had_path |-> StrTruthy(actual_path),
                                      read |-> denv.read]
                                ELSE discovered
                          /\ document_data' = MarkFiltered(appended, verdict, query_id)
                          /\ successful_queries' = successful_queries + 1
                          /\ pc' = CASE verdict = "pass" -> "loop"
                                     [] verdict = "exit" -> "exit1"
                                     [] OTHER -> "break"
                          /\ query_index' = IF verdict = "pass" THEN query_index + 1
                                            ELSE query_index
    /\ UNCHANGED <<doc, use_qwant_strategy, metadata, result, sourced,
                   analyzer_document, report>>
    /\ UNCHANGED <<sections, section_idx, accumulated_params, queries, query_section,
                   lq_pc, network_calls>>
    /\ UNCHANGED xvars

\* "return document_data, successful_queries > 0" after the loop or a break
process_document_return ==
    /\ \/ pc = "loop" /\ query_index > Len(queries)
       \/ pc = "break"
    /\ pc' = "returned"
    /\ result' = [returned |-> TRUE, has_record |-> TRUE,
                  success |-> Success(successful_queries)]
    /\ UNCHANGED <<doc, use_qwant_strategy, actual_path, pdf_data, metadata,
                   document_data, successful_queries, query_index, requests, sourced,
                   discovered, analyzer_document, report>>
    /\ UNCHANGED <<sections, section_idx, accumulated_params, queries, query_section,
                   lq_pc, network_calls>>
    /\ UNCHANGED xvars

\* ------------------------------- DocumentAnalyzer: process_pdf, filters
\* analyzer.py lines 217-271: the locals of process_pdf when sourcing ends,
\* "failed" for "return False".
PdfSourcing(d, env) ==
    LET found == IF StrTruthy(d.pdf_path)
                 THEN find_pdf_file(d.pdf_path, BibtexDir(d.bibtex_file_path),
                                    env.isfile, env.isfile_bibdir)
                 ELSE "None"
    IN IF is_url(d.pdf_path)
       THEN [failed |-> FALSE, actual_path |-> "None", pdf_data |-> "None",
             metadata |-> MetaNone]
       ELSE IF StrTruthy(found)
       THEN [failed |-> env.read = "raise", actual_path |-> found,
             pdf_data |-> IF env.read = "raise" THEN "None" ELSE ReadBytes(env.read),
             metadata |-> MetaNone]
       ELSE [failed |-> ~HasEntry(d), actual_path |-> "None", pdf_data |-> "None",
             metadata |-> IF HasEntry(d) THEN extract_metadata(d.entry_text, d.bibtex_key)
                          ELSE MetaNone]

\* analyzer.py lines 273-281
NewAnalyzerDocument(d, src) ==
    [id |-> Len(report.documents) + 1,
     file_path |-> IF StrTruthy(src.actual_path) THEN src.actual_path ELSE d.pdf_path,
     bibtex_key |-> d.bibtex_key,
     is_metadata_only |-> src.actual_path = "None" /\ ~is_url(d.pdf_path),
     is_url |-> is_url(d.pdf_path),
     queries |-> <<>>]

\* process_pdf up to the start of its query loop.
process_pdf_source ==
    /\ pc = "pdf_source"
    /\ \E env \in SourcingEnvs :
          LET src == PdfSourcing(doc, env)
          IN IF src.failed
             THEN /\ pc' = "pdf_returned"
                  /\ result' = [returned |-> TRUE, has_record |-> FALSE, success |-> FALSE]
                  /\ UNCHANGED <<actual_path, pdf_data, metadata, analyzer_document>>
             ELSE /\ pc' = "pdf_loop"
                  /\ actual_path' = src.actual_path
                  /\ pdf_data' = src.pdf_data
                  /\ metadata' = src.metadata
                  /\ analyzer_document' = NewAnalyzerDocument(doc, src)
                  /\ UNCHANGED result
    /\ UNCHANGED <<doc, use_qwant_strategy, document_data, successful_queries,
                   query_index, requests, sourced, discovered, report>>
    /\ UNCHANGED <<sections, section_idx, accumulated_params, queries, query_section,
                   lq_pc, network_calls>>
    /\ UNCHANGED xvars

\* analyzer.py lines 291-307: URL context, PDF payload or metadata text.
PdfRequestMode(d, data) ==
    IF is_url(d.pdf_path) THEN "url" ELSE IF StrTruthy(data) THEN "pdf" ELSE "text"

\* One iteration of "for i, query_info in enumerate(self.queries)" in process_pdf.
process_pdf_query ==
    /\ pc = "pdf_loop"
    /\ query_index <= Len(queries)
    /\ LET q == queries[query_index]
       IN IF PdfRequestMode(doc, pdf_data) = "text" /\ metadata = MetaNone
          THEN \* format_metadata_for_prompt(None) raises outside the try
               /\ pc' = "pdf_raised"
               /\ UNCHANGED <<query_index, analyzer_document, successful_queries, requests>>
          ELSE \E out \in RequestOutcomes(q) :
               /\ requests' = Append(requests,
                     [query_id |-> query_index,
                      mode |-> PdfRequestMode(doc, pdf_data),
                      raised |-> out.kind = "raise",
                      content |-> out.content])
               /\ query_index' = query_index + 1
               /\ pc' = pc
               /\ IF out.kind = "raise"
                  THEN UNCHANGED <<analyzer_document, successful_queries>>
                  ELSE /\ analyzer_document' =
                            [analyzer_document EXCEPT !.queries =
                                Append(@, [query_id |-> query_index,
                                           response |-> ParsedResponse(q, out.content),
                                           grounding_metadata |-> out.grounding])]
                       /\ successful_queries' = successful_queries + 1
    /\ UNCHANGED <<doc, use_qwant_strategy, actual_path, pdf_data, metadata,
                   document_data, result, sourced, discovered, report>>
    /\ UNCHANGED <<sections, section_idx, accumulated_params, queries, query_section,
                   lq_pc, network_calls>>
    /\ UNCHANGED xvars

\* ReportManager.add_document
add_document(r, d) ==
    [r EXCEPT !.documents = Append(@, d), !.total_documents = @ + 1]

\* analyzer.py lines 367-401: the end of process_pdf.
process_pdf_return ==
    /\ pc = "pdf_loop"
    /\ query_index > Len(queries)
    /\ pc' = "pdf_returned"
    /\ IF successful_queries > 0
       THEN /\ report' = add_document(report, analyzer_document)
            /\ result' = [returned |-> TRUE, has_record |-> TRUE, success |-> TRUE]
       ELSE /\ report' = report
            /\ result' = [returned |-> TRUE, has_record |-> FALSE, success |-> FALSE]
    /\ UNCHANGED <<doc, use_qwant_strategy, actual_path, pdf_data, metadata,
                   document_data, successful_queries, query_index, requests, sourced,
                   discovered, analyzer_document>>
    /\ UNCHANGED <<sections, section_idx, accumulated_params, queries, query_section,
                   lq_pc, network_calls>>
    /\ UNCHANGED xvars

\* truth value of a response: "", {} and [] are false
ResponseTruthy(r) ==
    CASE r.t = "str" -> r.s # ""
      [] r.t = "dict" -> r.keys # {}
      [] OTHER -> TRUE

\* analyzer.py lines 425-429: the response of the first entry with this
\* query_id, PyText("") standing for None
QueryResponse(d, query_id) ==
    IF \E k \in DOMAIN d.queries : d.queries[k].query_id = query_id
    THEN d.queries[CHOOSE k \in DOMAIN d.queries :
                      /\ d.queries[k].query_id = query_id
                      /\ \A j \in 1..(k - 1) : d.queries[j].query_id # query_id].response
    ELSE PyText("")

\* analyzer.py lines 431-459 for one document: "exit" is sys.exit(1).
FilterDocument(d, query_id, filter_field) ==
    LET query_response == QueryResponse(d, query_id)
    IN IF ResponseTruthy(query_response) /\ query_response.t = "dict"
       THEN IF DictGet(query_response, filter_field).t # "bool" THEN "exit"
            ELSE IF DictGet(query_response, filter_field).b THEN "pass"
            ELSE "filtered"
       ELSE "filtered"

\* The loop of _apply_filters from query query_id on: the remaining and the
\* filtered-out documents, and whether sys.exit(1) was reached.
RECURSIVE FilterFrom(_, _, _)
FilterFrom(query_id, remaining_docs, filtered_out) ==
    IF query_id > Len(queries)
    THEN [exit |-> FALSE, remaining_docs |-> remaining_docs, filtered_out |-> filtered_out]
    ELSE IF ~Truthy(queries[query_id].filter_on)
    THEN FilterFrom(query_id + 1, remaining_docs, filtered_out)
    ELSE LET field == queries[query_id].filter_on.s
             verdict(d) == FilterDocument(d, query_id, field)
         IN IF \E k \in DOMAIN remaining_docs : verdict(remaining_docs[k]) = "exit"
            THEN [exit |-> TRUE, remaining_docs |-> remaining_docs,
                  filtered_out |-> filtered_out]
            ELSE FilterFrom(query_id + 1,
                            SelectSeq(remaining_docs, LAMBDA d : verdict(d) = "pass"),
                            filtered_out \o
                              SelectSeq(remaining_docs, LAMBDA d : verdict(d) = "filtered"))

\* Does _apply_filters end in sys.exit(1) (line 439)?
FiltersExit(r) == FilterFrom(1, r.documents, r.filtered_out_documents).exit

\* Mutant: the counters of the report are left as they were.
FilteredReport_StaleCounters(r) ==
    LET outcome == FilterFrom(1, r.documents, r.filtered_out_documents)
    IN IF outcome.exit
       THEN [r EXCEPT !.filtered_out_documents = outcome.filtered_out]
       ELSE [r EXCEPT !.documents = outcome.remaining_docs,
                      !.filtered_out_documents = outcome.filtered_out]

\* The report and filtered_out_documents when _apply_filters ends: on
\* sys.exit(1) the filters before the failing one have extended
\* filtered_out_documents (line 463) and lines 471-475 were not reached.
FilteredReport(r) ==
    LET outcome == FilterFrom(1, r.documents, r.filtered_out_documents)
    IN IF outcome.exit
       THEN [r EXCEPT !.filtered_out_documents = outcome.filtered_out]
       ELSE [documents |-> outcome.remaining_docs,
             total_documents |-> Len(outcome.remaining_docs),
             filtered_out_count |-> Len(outcome.filtered_out),
             filtered_out_documents |-> outcome.filtered_out]

\* DocumentAnalyzer._apply_filters, called by process_files after the
\* documents have been processed.
apply_filters ==
    /\ pc = "pdf_returned"
    /\ pc' = IF FiltersExit(report) THEN "filters_exit1" ELSE "done"
    /\ report' = FilteredReport(report)
    /\ UNCHANGED <<doc, use_qwant_strategy, actual_path, pdf_data, metadata,
                   document_data, successful_queries, query_index, requests, result,
                   sourced, discovered, analyzer_document>>
    /\ UNCHANGED <<sections, section_idx, accumulated_params, queries, query_section,
                   lq_pc, network_calls>>
    /\ UNCHANGED xvars

\* ------------------------------------------------------ the report counters
\* ReportManager (reports.py lines 14-75) and DocumentAnalyzer._apply_filters
\* called in any order on the report of one analyzer.
\* The query lists of the report: one filter, a filter after a plain query,
\* and two filters.
ReportQueryLists ==
    {<<FilterQuery>>, <<PlainQuery, FilterQuery>>, <<FilterQuery, FilterQuery>>}

\* What a query of a reported document gave: a response text, or "raise"
\* for a query that failed and left no entry.
ReportContentsFor(q) ==
    IF Truthy(q.filter_on)
    THEN {"{\"relevant\": true}", "{\"relevant\": false}", "{\"relevant\": \"yes\"}", "raise"}
    ELSE {"Yes, it is."}

\* The queries list process_pdf builds from the outcomes of the queries.
RECURSIVE ReportEntries(_, _)
ReportEntries(outcomes, k) ==
    IF k > Len(outcomes) THEN <<>>
    ELSE IF outcomes[k] = "raise" THEN ReportEntries(outcomes, k + 1)
    ELSE <<[query_id |-> k,
            response |-> ParsedResponse(queries[k], outcomes[k]),
            grounding_metadata |-> "None"]>> \o ReportEntries(outcomes, k + 1)

\* The documents process_pdf hands to add_document: at least one query
\* succeeded (analyzer.py line 367).
ReportDocuments ==
    {[id |-> Len(report.documents) + 1, file_path |-> "paper.pdf",
      bibtex_key |-> "smith2020", is_metadata_only |-> FALSE, is_url |-> FALSE,
      queries |-> ReportEntries(outcomes, 1)] :
        outcomes \in {o \in [1..Len(queries) -> UNION {ReportContentsFor(queries[k]) :
                                                        k \in 1..Len(queries)}] :
                        /\ \A k \in 1..Len(queries) : o[k] \in ReportContentsFor(queries[k])
                        /\ \E k \in 1..Len(queries) : o[k] # "raise"}}

\* ReportManager.initialize_json_structure: filtered_out_documents belongs
\* to the analyzer and stays.
InitializeJsonStructure(r) ==
    [r EXCEPT !.documents = <<>>, !.total_documents = 0, !.filtered_out_count = 0]

\* The report is in use: the analyzer is constructed and has not exited.
ReportOpen == pc \in {"idle", "initialized", "added", "filtered"}

initialize_json_structure ==
    /\ ReportOpen
    /\ pc' = "initialized"
    /\ report' = InitializeJsonStructure(report)
    /\ UNCHANGED <<doc, use_qwant_strategy, actual_path, pdf_data, metadata,
                   document_data, successful_queries, query_index, requests, result,
                   sourced, discovered, analyzer_document>>
    /\ UNCHANGED <<qvars, xvars>>

report_add_document ==
    /\ ReportOpen
    /\ Len(report.documents) + Len(report.filtered_out_documents) < MaxReported
    /\ pc' = "added"
    /\ \E d \in ReportDocuments : report' = add_document(report, d)
    /\ UNCHANGED <<doc, use_qwant_strategy, actual_path, pdf_data, metadata,
                   document_data, successful_queries, query_index, requests, result,
                   sourced, discovered, analyzer_document>>
    /\ UNCHANGED <<qvars, xvars>>

report_apply_filters ==
    /\ ReportOpen
    /\ pc' = IF FiltersExit(report) THEN "filters_exit1" ELSE "filtered"
    /\ report' = FilteredReport(report)
    /\ UNCHANGED <<doc, use_qwant_strategy, actual_path, pdf_data, metadata,
                   document_data, successful_queries, query_index, requests, result,
                   sourced, discovered, analyzer_document>>
    /\ UNCHANGED <<qvars, xvars>>

\* ------------------------------------------------------- the process run
\* cli.process with CLIAnalyzer (cli.py lines 185-447) over
\* DocumentAnalyzer.process_files and process_pdf.
\* The mappings of a run: an entry with a file reference, an entry without a
\* reference, and a standalone PDF file.
RunDocuments ==
    {Doc("paper.pdf", "smith2020", EntryWithTitle, "refs/lib.bib"),
     Doc("None", "jones2021", EntryWithTitle, "refs/lib.bib"),
     Doc("paper.pdf", "", "", "")}

\* process_files goes through the entries of the BibTeX files first and
\* through the standalone PDF files after them.
RunLists ==
    {l \in SeqsUpTo(RunDocuments, MaxDocs) :
        \A i \in 1..Len(l) : \A j \in 1..Len(l) :
            (i < j /\ l[i].bibtex_key = "") => l[j].bibtex_key = ""}

\* The loaded queries of a run: one plain query, or one filter query.
RunQueryLists == {<<PlainQuery>>, <<FilterQuery>>}

\* A query file whose only query names a filter field and has no structure.
UnstructuredFilterQuery ==
    QueryConfig(DocParams(PyAbsent, PyAbsent, PyStr("relevant")), "None")

\* What the run finds when the analyzer is built.
RunConfigs == {"ok", "no_api_key", "no_query_file", "filter_without_structure"}

\* DocumentAnalyzer.__init__: GeminiAPIClient.__init__ asks get_api_key, which
\* ends in sys.exit(1) without a key and a key command; load_queries ends in
\* sys.exit(1) when the query file is missing or a query has filter_on and
\* no structure.
ConstructionExits(config) ==
    \/ config = "no_api_key"
    \/ config = "no_query_file"
    \/ config = "filter_without_structure"
       /\ FilterWithoutStructure(UnstructuredFilterQuery)

\* The checkpoint a resumed run loads: the processed ledger and the report
\* hold the entry smith2020.
Checkpoint ==
    [ledger |-> {"smith2020"},
     documents |-> <<[bibtex_key |-> "smith2020", answer |-> "text", run |-> "earlier"]>>]

\* self.load_state(...) in CLIAnalyzer.__init__: the ledger and the report
\* of the checkpoint are restored.
load_state(resume) ==
    IF resume THEN [ledger |-> Checkpoint.ledger, documents |-> Checkpoint.documents]
    ELSE [ledger |-> {}, documents |-> <<>>]

\* What a run's file system answers for one mapping (no download, no search).
RunEnvs ==
    {e \in SourcingEnvs :
        e.download = "fail" /\ e.search = "no_result" /\ e.search_read = "raise"}

\* What the one query of a run gets for a document: the request raises, or
\* it is answered, for a filter query with the filter field true, false or
\* not a boolean.
RunAnswers(qs) ==
    IF Truthy(qs[1].filter_on) THEN {"raise", "true", "false", "non_boolean"}
    ELSE {"raise", "text"}

\* How one process_pdf call ends: it returns True or False, or raises.
\* sourcing: the file was not found and there is no entry ("no_source"), open
\* or read raised ("unreadable"), the file is empty and there is no metadata,
\* so that format_metadata_for_prompt(None) raises ("empty_file"), else "ok".
process_pdf_ending(d, env, qs, answer) ==
    LET src == PdfSourcing(d, env)
    IN IF src.failed
       THEN [ending |-> "False",
             sourcing |-> IF StrTruthy(src.actual_path) THEN "unreadable" ELSE "no_source",
             requests |-> 0, answer |-> "none"]
       ELSE IF PdfRequestMode(d, src.pdf_data) = "text" /\ src.metadata = MetaNone
       THEN [ending |-> "raised", sourcing |-> "empty_file", requests |-> 0,
             answer |-> "none"]
       ELSE IF answer = "raise"
       THEN [ending |-> "False", sourcing |-> "ok", requests |-> Len(qs),
             answer |-> "none"]
       ELSE [ending |-> "True", sourcing |-> "ok", requests |-> Len(qs),
             answer |-> answer]

\* a KeyboardInterrupt during process_pdf
InterruptedCall ==
    [ending |-> "interrupt", sourcing |-> "interrupted", requests |-> 0, answer |-> "none"]

\* Mutant: a state save that fails after a document ends the run.
DocumentSaveContinues_OnlyIfSaved(save_ok) == save_ok

\* process_pdf_with_state_saving, lines 395-408: the save is inside
\* try/except Exception, and the result is returned whatever the save did.
DocumentSaveContinues(save_ok) == TRUE

\* Mutant: only an error is followed by a save attempt, an interrupt is not.
SavesOnFailure_ErrorsOnly(kind) == kind = "error"

\* process_files_with_state_saving, lines 357-385: "except KeyboardInterrupt"
\* and "except Exception" both call save_state before "raise".
SavesOnFailure(kind) == kind \in {"interrupted", "error"}

\* Mutant: sys.exit(1) of the construction is caught and the status is 0.
ExitStatus_IgnoresSysExit(ending) == IF ending \in {"interrupted", "error"} THEN 1 ELSE 0

\* cli.process lines 420-447: typer.Exit(1) after a KeyboardInterrupt or an
\* Exception, the status of sys.exit(1), and 0 when process returns.
ExitStatus(ending) == IF ending = "completed" THEN 0 ELSE 1

\* analyzer = CLIAnalyzer(): DocumentAnalyzer.__init__, then the state
\* loading of CLIAnalyzer.__init__.
analyzer_construct ==
    /\ run_pc = "construct"
    /\ IF ConstructionExits(run_config)
       THEN /\ run_pc' = "exit_config"
            /\ exit_status' = ExitStatus("sys_exit")
            /\ UNCHANGED <<ledger, run_report>>
       ELSE /\ run_pc' = "initial_save"
            /\ ledger' = load_state(run_resume).ledger
            /\ run_report' = load_state(run_resume).documents
            /\ UNCHANGED exit_status
    /\ UNCHANGED <<run_config, run_resume, files, doc_index, run_calls, saves>>
    /\ UNCHANGED <<qvars, dvars, evars, svars, pvars, bvars, tvars>>

\* process_files_with_state_saving, lines 324-337: the initial save, whose
\* failure is reported as a warning.
initial_save ==
    /\ run_pc = "initial_save"
    /\ \E save_ok \in BOOLEAN :
          saves' = Append(saves, [at |-> "initial", after |-> 0, ok |-> save_ok,
                                  cut |-> FALSE])
    /\ run_pc' = "documents"
    /\ UNCHANGED <<run_config, run_resume, files, doc_index, run_calls, run_report,
                   ledger, exit_status>>
    /\ UNCHANGED <<qvars, dvars, evars, svars, pvars, bvars, tvars>>

\* One iteration of the loops of process_files (lines 597-617), which call
\* self.process_pdf, replaced by process_pdf_with_state_saving (lines
\* 392-408): process_pdf, then the save.  A KeyboardInterrupt arrives during
\* process_pdf, during the save, or not at all.
process_pdf_with_state_saving ==
    /\ run_pc = "documents"
    /\ doc_index <= Len(files)
    /\ \E env \in RunEnvs, answer \in RunAnswers(queries),
          interrupt \in {"no", "process_pdf", "save_state"}, save_ok \in BOOLEAN :
          LET d == files[doc_index]
              call == IF interrupt = "process_pdf" THEN InterruptedCall
                      ELSE process_pdf_ending(d, env, queries, answer)
              returned == call.ending \in {"True", "False"}
          IN  /\ (interrupt = "save_state" \/ ~returned) => ~save_ok
              /\ run_calls' = Append(run_calls,
                    [index |-> doc_index, bibtex_key |-> d.bibtex_key,
                     ending |-> call.ending, sourcing |-> call.sourcing,
                     requests |-> call.requests])
              /\ run_report' =
                    IF call.ending = "True"
                    THEN Append(run_report, [bibtex_key |-> d.bibtex_key,
                                             answer |-> call.answer, run |-> "this"])
                    ELSE run_report
              /\ saves' = IF returned
                          THEN Append(saves, [at |-> "document", after |-> doc_index,
                                              ok |-> save_ok,
                                              cut |-> interrupt = "save_state"])
                          ELSE saves
              /\ run_pc' =
                    CASE call.ending = "interrupt" -> "interrupted"
                      [] call.ending = "raised" -> "error"
                      [] interrupt = "save_state" -> "interrupted"
                      [] ~DocumentSaveContinues(save_ok) -> "error"
                      [] OTHER -> "documents"
              /\ doc_index' = IF returned /\ interrupt = "no" /\ DocumentSaveContinues(save_ok)
                              THEN doc_index + 1 ELSE doc_index
    /\ UNCHANGED <<run_config, run_resume, files, ledger, exit_status>>
    /\ UNCHANGED <<qvars, dvars, evars, svars, pvars, bvars, tvars>>

\* The end of process_files (lines 619-626): _apply_filters ends in
\* sys.exit(1) at a filter field that is no boolean, else the documents whose
\* field is false leave the report, and the reports are written.
process_files_return ==
    /\ run_pc = "documents"
    /\ doc_index > Len(files)
    /\ IF \E k \in 1..Len(run_report) : run_report[k].answer = "non_boolean"
       THEN /\ run_pc' = "exit_filter"
            /\ exit_status' = ExitStatus("sys_exit")
            /\ UNCHANGED run_report
       ELSE /\ run_pc' = "final_save"
            /\ run_report' = SelectSeq(run_report, LAMBDA r : r.answer # "false")
            /\ UNCHANGED exit_status
    /\ UNCHANGED <<run_config, run_resume, files, doc_index, run_calls, saves, ledger>>
    /\ UNCHANGED <<qvars, dvars, evars, svars, pvars, bvars, tvars>>

\* process_files_with_state_saving, lines 345-355, and the return of
\* cli.process: the final save, whose failure is reported as a warning.
final_save ==
    /\ run_pc = "final_save"
    /\ \E save_ok \in BOOLEAN :
          saves' = Append(saves, [at |-> "final", after |-> Len(run_calls), ok |-> save_ok,
                                  cut |-> FALSE])
    /\ run_pc' = "completed"
    /\ exit_status' = ExitStatus("completed")
    /\ UNCHANGED <<run_config, run_resume, files, doc_index, run_calls, run_report, ledger>>
    /\ UNCHANGED <<qvars, dvars, evars, svars, pvars, bvars, tvars>>

\* The handlers "except KeyboardInterrupt" and "except Exception" of
\* process_files_with_state_saving (lines 357-385), which save and re-raise,
\* and those of cli.process (lines 440-447), which raise typer.Exit(1).
save_on_failure ==
    /\ run_pc \in {"interrupted", "error"}
    /\ \E save_ok \in BOOLEAN :
          saves' = IF SavesOnFailure(run_pc)
                   THEN Append(saves, [at |-> run_pc, after |-> Len(run_calls),
                                       ok |-> save_ok, cut |-> FALSE])
                   ELSE saves
    /\ run_pc' = IF run_pc = "interrupted" THEN "exit_interrupted" ELSE "exit_error"
    /\ exit_status' = ExitStatus(run_pc)
    /\ UNCHANGED <<run_config, run_resume, files, doc_index, run_calls, run_report, ledger>>
    /\ UNCHANGED <<qvars, dvars, evars, svars, pvars, bvars, tvars>>

\* --------------------------------------- tracking of downloaded files
\* The files one DocumentProcessor has downloaded, by the place that asked
\* for the download: _download_pdf_from_url, _search_for_pdf in sourcing,
\* and the discovery of the query loop.
TempPaths ==
    {"/tmp/ask_llm_url_4711.pdf", "/tmp/ask_llm_search_815.pdf",
     "/tmp/ask_llm_discovered_42.pdf"}

\* Mutant: the search keeps track of its download whatever verbose is.
SearchTracks_Always(v) == TRUE

\* _search_for_pdf lines 116-122: the append is inside "if self.verbose:".
SearchTracks(v) == v

\* Lines 369-380: the discovered file is adopted and tracked when there was
\* no actual_path and the path exists.
DiscoveryTracks(had_path, exists) == ~had_path /\ exists

\* DocumentProcessor._download_pdf_from_url: the download gives a path or
\* None.
download_pdf_from_url_call ==
    /\ "/tmp/ask_llm_url_4711.pdf" \notin temp_files
    /\ \E downloaded \in BOOLEAN :
          IF downloaded
          THEN /\ temp_files' = temp_files \cup {"/tmp/ask_llm_url_4711.pdf"}
               /\ downloaded_pdfs' = Append(downloaded_pdfs, "/tmp/ask_llm_url_4711.pdf")
          ELSE UNCHANGED <<temp_files, downloaded_pdfs>>
    /\ UNCHANGED handed
    /\ UNCHANGED <<qvars, dvars, evars, svars, pvars, rvars, bvars>>

\* DocumentProcessor._search_for_pdf with metadata: the strategy gives the
\* path of a downloaded file, or nothing, or raises.
search_for_pdf_call ==
    /\ "/tmp/ask_llm_search_815.pdf" \notin temp_files
    /\ \E found \in BOOLEAN :
          IF found
          THEN /\ temp_files' = temp_files \cup {"/tmp/ask_llm_search_815.pdf"}
               /\ downloaded_pdfs' =
                     IF SearchTracks(verbose)
                     THEN Append(downloaded_pdfs, "/tmp/ask_llm_search_815.pdf")
                     ELSE downloaded_pdfs
          ELSE UNCHANGED <<temp_files, downloaded_pdfs>>
    /\ UNCHANGED handed
    /\ UNCHANGED <<qvars, dvars, evars, svars, pvars, rvars, bvars>>

\* The discovery of the query loop, lines 356-380: the strategy downloaded a
\* file; actual_path was set or not, and the path exists or not.
discovery_download ==
    /\ "/tmp/ask_llm_discovered_42.pdf" \notin temp_files
    /\ \E had_path \in BOOLEAN, exists \in BOOLEAN :
          /\ temp_files' = IF exists THEN temp_files \cup {"/tmp/ask_llm_discovered_42.pdf"}
                           ELSE temp_files
          /\ downloaded_pdfs' =
                IF DiscoveryTracks(had_path, exists)
                THEN Append(downloaded_pdfs, "/tmp/ask_llm_discovered_42.pdf")
                ELSE downloaded_pdfs
    /\ UNCHANGED handed
    /\ UNCHANGED <<qvars, dvars, evars, svars, pvars, rvars, bvars>>

\* DocumentProcessor.cleanup_downloaded_pdfs: a list that is not empty goes
\* to cleanup_temp_files and is cleared.  Each call is recorded with the
\* paths it passed on and the files downloaded up to it.
cleanup_downloaded_pdfs ==
    /\ Len(handed) < MaxCleanups
    /\ handed' = Append(handed,
          [paths |-> {downloaded_pdfs[i] : i \in 1..Len(downloaded_pdfs)},
           files |-> temp_files])
    /\ downloaded_pdfs' = <<>>
    /\ UNCHANGED temp_files
    /\ UNCHANGED <<qvars, dvars, evars, svars, pvars, rvars, bvars>>

\* load_queries is not running.
IdleQ ==
    /\ sections = <<>>
    /\ section_idx = 1
    /\ accumulated_params = EmptyParams
    /\ query_section = <<>>
    /\ lq_pc = "idle"
    /\ network_calls = 0

\* One call of process_document with any document and query list, and with
\* either search strategy for the entry that has only a title to search for.
InitDocument ==
    /\ IdleQ
    /\ IdleX
    /\ queries \in QueryLists
    /\ doc \in Documents
    /\ use_qwant_strategy \in IF doc = Doc("None", "smith2020", EntryWithTitle, "refs/lib.bib")
                              THEN BOOLEAN ELSE {FALSE}
    /\ pc = "source"
    /\ actual_path = "None"
    /\ pdf_data = "None"
    /\ metadata = MetaNone
    /\ document_data = NoDocument
    /\ successful_queries = 0
    /\ query_index = 1
    /\ requests = <<>>
    /\ result = NoResult
    /\ sourced = NotSourced
    /\ discovered = NotDiscovered
    /\ analyzer_document = NoAnalyzerDocument
    /\ report = NoReport

\* One run of process_files over one input item: process_pdf, then filters.
InitPdf ==
    /\ IdleQ
    /\ IdleX
    /\ queries \in SeqsUpTo(PdfQueries, MaxQueries)
    /\ doc \in Documents
    /\ use_qwant_strategy = FALSE
    /\ pc = "pdf_source"
    /\ actual_path = "None"
    /\ pdf_data = "None"
    /\ metadata = MetaNone
    /\ document_data = NoDocument
    /\ successful_queries = 0
    /\ query_index = 1
    /\ requests = <<>>
    /\ result = NoResult
    /\ sourced = NotSourced
    /\ discovered = NotDiscovered
    /\ analyzer_document = NoAnalyzerDocument
    /\ report = NoReport

Init == InitDocument \/ InitPdf

Next ==
    \/ process_document_source
    \/ process_document_query
    \/ process_document_return
    \/ process_pdf_source
    \/ process_pdf_query
    \/ process_pdf_return
    \/ apply_filters

Spec == Init /\ [][Next]_vars

\* ------------------------------------- specification of extract_response
InitE ==
    /\ response_data \in ResponseShapes
    /\ verbose \in BOOLEAN
    /\ er_pc = "call"
    /\ er_result = NoExtraction
    /\ query_outcome = "none"
    /\ queries = <<>>
    /\ IdleQ
    /\ IdleD
    /\ IdleS
    /\ IdleY

NextE == extract_response_call \/ query_loop_handles

SpecE == InitE /\ [][NextE]_vars

\* ---------------------------------------- specification of PDF discovery
InitS ==
    /\ strategy \in {"grounding_strategy", "qwant_strategy", "grounding_finder",
                     "qwant_finder", "fallback"}
    /\ chained = (strategy = "fallback")
    /\ has_title \in BOOLEAN
    /\ api_client \in IF strategy \in {"grounding_finder", "qwant_finder"}
                      THEN BOOLEAN ELSE {FALSE}
    /\ find_pc = IF strategy = "fallback" THEN "fallback" ELSE "strict"
    /\ search_requests = <<>>
    /\ candidates = <<>>
    /\ candidate_index = 1
    /\ downloads = <<>>
    /\ tried = <<>>
    /\ find_result = NoFind
    /\ strategy_calls = <<>>
    /\ queries = <<>>
    /\ IdleQ
    /\ IdleD
    /\ IdleE
    /\ IdleY

NextS ==
    \/ grounding_strict_query
    \/ grounding_relaxed_query
    \/ qwant_strict_query
    \/ qwant_relaxed_query
    \/ engine_strict_query
    \/ engine_relaxed_query
    \/ finder_try_candidate
    \/ finder_return
    \/ fallback_grounded
    \/ fallback_direct
    \/ fallback_return

SpecS == InitS /\ [][NextS]_vars

\* -------------------------------------- specification of PDF acquisition
\* Two successive calls of _download_pdf in one process, the temporary
\* directory holding no target file and the cache no response at the start.
InitP ==
    /\ disk = [n \in FileNames |-> "absent"]
    /\ http_cache = [u \in Urls |-> NoFetch]
    /\ dl_pc = "first"
    /\ dl_calls = <<>>
    /\ queries = <<>>
    /\ IdleQ
    /\ IdleD
    /\ IdleE
    /\ IdleS
    /\ IdleR
    /\ IdleB
    /\ IdleT

NextP == download_pdf_call

SpecP == InitP /\ [][NextP]_vars

\* ------------------------------------------- specification of the run
InitR ==
    /\ run_config \in RunConfigs
    /\ run_resume \in BOOLEAN
    /\ files \in RunLists
    /\ queries \in RunQueryLists
    /\ run_pc = "construct"
    /\ doc_index = 1
    /\ run_calls = <<>>
    /\ saves = <<>>
    /\ run_report = <<>>
    /\ ledger = {}
    /\ exit_status = -1
    /\ IdleQ
    /\ IdleD
    /\ IdleE
    /\ IdleS
    /\ IdleP
    /\ IdleB
    /\ IdleT

NextR ==
    \/ analyzer_construct
    \/ initial_save
    \/ process_pdf_with_state_saving
    \/ process_files_return
    \/ final_save
    \/ save_on_failure

SpecR == InitR /\ [][NextR]_vars

\* ------------------------------- specification of the BibTeX update
InitB ==
    /\ bib_database \in BibFiles
    /\ url_mappings \in UrlMappings
    /\ bib_updates = <<>>
    /\ queries = <<>>
    /\ IdleQ
    /\ IdleD
    /\ IdleE
    /\ IdleS
    /\ IdleP
    /\ IdleR
    /\ IdleT

NextB == update_bibtex_with_urls

SpecB == InitB /\ [][NextB]_vars

\* ------------------- specification of the tracking of downloaded files
InitT ==
    /\ verbose \in BOOLEAN
    /\ response_data = NoResponse
    /\ er_pc = "idle"
    /\ er_result = NoExtraction
    /\ query_outcome = "none"
    /\ downloaded_pdfs = <<>>
    /\ temp_files = {}
    /\ handed = <<>>
    /\ queries = <<>>
    /\ IdleQ
    /\ IdleD
    /\ IdleS
    /\ IdleP
    /\ IdleR
    /\ IdleB

NextT ==
    \/ download_pdf_from_url_call
    \/ search_for_pdf_call
    \/ discovery_download
    \/ cleanup_downloaded_pdfs

SpecT == InitT /\ [][NextT]_vars

\* -------------------------------------- specification of the report counters
\* The analyzer after construction: __init__ has called
\* initialize_json_structure (analyzer.py line 60).
InitM ==
    /\ IdleQ
    /\ IdleD
    /\ IdleX
    /\ queries \in ReportQueryLists

NextM == initialize_json_structure \/ report_add_document \/ report_apply_filters

SpecM == InitM /\ [][NextM]_vars

\* ------------------------------------------------- claims on load_queries
\* The sections the loop has gone through: all before section_idx, and the
\* one at section_idx when the loop stopped there.
Processed ==
    {i \in 1..Len(sections) :
        i < section_idx \/ (i = section_idx /\ lq_pc \in {"exit1", "raised"})}

\* Section i declares params key k (its parameter line sets a value for k).
Declares(i, k) == CurrentParams(sections[i].lines)[k] # PyAbsent

DeclaredValue(i, k) == CurrentParams(sections[i].lines)[k]

\* The value of k from the latest section j <= i that declares k.
LatestDeclared(i, k) ==
    IF \E j \in 1..i : Declares(j, k)
    THEN LET j == CHOOSE j \in 1..i :
                    Declares(j, k) /\ \A h \in (j + 1)..i : ~Declares(h, k)
         IN DeclaredValue(j, k)
    ELSE PyAbsent

PersistentKeys == {"model", "temperature", "google_search"}
OneShotKeys == {"filter_on", "semantic_scholar", "relevance_search"}
TuningKeys == {"limit", "ss_offset", "ss_year"}

\* A section that yields a query and has no JSON structure, or one that
\* json.loads rejects.
NoValidStructure(i) == sections[i].text /\ sections[i].json \in {"none", "invalid"}

\* C2 as stated: a section that yields a query, declares filter-on and has no
\* valid JSON structure makes load_queries end the process before it returns
\* a query list and before any request is made.
C2_AsStated ==
    \A i \in 1..Len(sections) :
        (NoValidStructure(i) /\ Declares(i, "filter_on"))
            => /\ lq_pc \in {"loop", "exit1", "raised"}
               /\ network_calls = 0
               /\ (lq_pc = "loop" => section_idx <= i)

\* C2 amended: the same, for a filter-on line that names a field (a non-empty
\* value); an empty filter-on value is taken as "no filter" and is accepted.
C2_FilterNeedsStructure ==
    \A i \in 1..Len(sections) :
        (NoValidStructure(i) /\ Truthy(DeclaredValue(i, "filter_on")))
            => /\ lq_pc \in {"loop", "exit1", "raised"}
               /\ network_calls = 0
               /\ (lq_pc = "loop" => section_idx <= i)

\* C2 witness: the loader stopped with exit status 1 at the second section,
\* which names a filter field and has no JSON block, after a valid query.
C2_Witness ==
    /\ lq_pc = "exit1"
    /\ section_idx = 2
    /\ Len(queries) = 1
    /\ NoValidStructure(2)
    /\ DeclaredValue(2, "filter_on") = PyStr("relevant")
    /\ network_calls = 0

\* C7: a persistent key (model, temperature, google_search) is in the params
\* of a query with the value of the latest section up to its own that
\* declares it, and absent when there is none; a one-shot key (filter_on,
\* semantic_scholar, relevance_search) is in the params of a query exactly
\* with the value its own section declares.
C7_Inheritance ==
    \A q \in 1..Len(queries) :
        /\ \A k \in PersistentKeys :
              queries[q].params[k] = LatestDeclared(query_section[q], k)
        /\ \A k \in OneShotKeys :
              queries[q].params[k] = DeclaredValue(query_section[q], k)

\* C7 witness: the first section sets temperature 0.2 and filter_on; the query
\* of the second section declares neither, has temperature 0.2 and no filter_on.
C7_Witness ==
    /\ Len(queries) = 2
    /\ query_section[2] = 2
    /\ DeclaredValue(1, "temperature") = PyFloat(2)
    /\ DeclaredValue(1, "filter_on") = PyStr("relevant")
    /\ ~Declares(2, "temperature")
    /\ ~Declares(2, "filter_on")
    /\ queries[2].params["temperature"] = PyFloat(2)
    /\ queries[2].params["filter_on"] = PyAbsent

\* C8 as stated: limit, offset and the other search-tuning keys are one-shot:
\* a query has them exactly as its own section declares them.
C8_AsStated ==
    \A q \in 1..Len(queries) :
        \A k \in TuningKeys :
            queries[q].params[k] = DeclaredValue(query_section[q], k)

\* C8 amended: limit, offset and the other search-tuning keys are persistent:
\* a query has each with the value of the latest section up to its own that
\* declares it, and lacks it when no such section exists.
C8_TuningPersists ==
    \A q \in 1..Len(queries) :
        \A k \in TuningKeys :
            queries[q].params[k] = LatestDeclared(query_section[q], k)

\* C8 witness: limit is declared by the first section only and is in the
\* params of the query of the second section.
C8_Witness ==
    /\ Len(queries) = 2
    /\ query_section[2] = 2
    /\ DeclaredValue(1, "limit") = PyInt(10)
    /\ ~Declares(2, "limit")
    /\ queries[2].params["limit"] = PyInt(10)

\* ------------------------------------------ claims on process_document
\* The recorded entries and the query each belongs to.
Entries == document_data.queries
EntryQuery(k) == queries[Entries[k].query_id]
Requested(j) == \E r \in DOMAIN requests : requests[r].query_id = j
Skipped(j) == Truthy(queries[j].params["semantic_scholar"])

\* The entry k answers a filter query with a structured response whose
\* named field is the boolean false.
FilterFieldFalse(k) ==
    /\ Truthy(EntryQuery(k).filter_on)
    /\ Entries[k].response.t = "dict"
    /\ DictGet(Entries[k].response, EntryQuery(k).filter_on.s) = PyBool(FALSE)

\* C1: once a filter query has recorded a structured response whose named
\* field is false, process_document has stopped: it breaks and returns the
\* record, which has is_filtered_out true, filtered_at_query equal to that
\* query's 1-based index and a filter_reason; no entry and no request has a
\* larger query_id.
C1_FilterFalseStops ==
    \A k \in DOMAIN Entries :
        FilterFieldFalse(k) =>
            /\ pc \in {"break", "returned"}
            /\ pc = "returned" => result.has_record
            /\ document_data.is_filtered_out
            /\ document_data.filtered_at_query = Entries[k].query_id
            /\ document_data.filter_reason # "None"
            /\ \A j \in DOMAIN Entries : Entries[j].query_id <= Entries[k].query_id
            /\ \A r \in DOMAIN requests : requests[r].query_id <= Entries[k].query_id

\* C1 witness: the first of two queries is a filter whose field came back
\* false; the record was returned and the second query was never requested.
C1_Witness ==
    /\ pc = "returned"
    /\ Len(queries) = 2
    /\ ~Skipped(2)
    /\ Len(Entries) = 1
    /\ FilterFieldFalse(1)
    /\ document_data.filtered_at_query = 1
    /\ ~Requested(2)

\* The entry k of document d answers a filter query with a structured
\* response whose named field is missing or not a boolean.
FilterFieldNotBoolean(d, k) ==
    LET q == queries[d.queries[k].query_id]
    IN /\ Truthy(q.filter_on)
       /\ d.queries[k].response.t = "dict"
       /\ DictGet(d.queries[k].response, q.filter_on.s).t # "bool"

\* The query list has a filter and j is the first one.
FirstFilter(j) ==
    /\ Truthy(queries[j].filter_on)
    /\ \A i \in 1..(j - 1) : ~Truthy(queries[i].filter_on)

\* C3 as stated: a structured response to a filter query whose named field is
\* missing or not a boolean stops the whole run: process_document is at
\* sys.exit(1) as soon as such an entry is recorded, and a run of
\* process_files does not complete its filtering with such a response to its
\* first filter query.
C3_AsStated ==
    /\ \A k \in DOMAIN Entries : FilterFieldNotBoolean(document_data, k) => pc = "exit1"
    /\ pc = "done" =>
          \A k \in DOMAIN analyzer_document.queries :
              FirstFilter(analyzer_document.queries[k].query_id)
                  => ~FilterFieldNotBoolean(analyzer_document, k)

\* The number of queries the loop of process_document has dealt with.
Handled ==
    IF document_data.is_filtered_out THEN document_data.filtered_at_query
    ELSE IF pc = "exit1" THEN query_index
    ELSE query_index - 1

\* C4 as stated: when process_document has ended, every non-skipped query
\* after one that raised has been requested.
C4_AsStated ==
    pc \in {"returned", "exit1"} =>
        \A r \in DOMAIN requests :
            requests[r].raised =>
                \A j \in (requests[r].query_id + 1)..Len(queries) :
                    ~Skipped(j) => Requested(j)

\* C4: a query that raised has no entry; the requests are made in the order
\* of the list; the record is still returned; and every non-skipped query up
\* to the point the loop has reached has been requested, where the loop runs
\* to the end of the list unless a filter stops the document or exits.
C4_RaiseContinues ==
    /\ \A r \in DOMAIN requests :
          requests[r].raised =>
              \A k \in DOMAIN Entries : Entries[k].query_id # requests[r].query_id
    /\ \A r1, r2 \in DOMAIN requests :
          r1 < r2 => requests[r1].query_id < requests[r2].query_id
    /\ \A j \in 1..Handled : ~Skipped(j) => Requested(j)
    /\ (pc = "returned" /\ requests # <<>>) => result.has_record
    /\ (pc = "returned" /\ result.has_record /\ ~document_data.is_filtered_out)
          => Handled = Len(queries)

\* C4 witness: the first of two queries raised, the second was requested and
\* answered, and the record was returned with the second entry only.
C4_Witness ==
    /\ pc = "returned"
    /\ Len(queries) = 2
    /\ Len(requests) = 2
    /\ requests[1].raised
    /\ ~requests[2].raised
    /\ Len(Entries) = 1
    /\ Entries[1].query_id = 2

\* C5: process_document returns success exactly when some query completed
\* without an exception; process_pdf returns True exactly then as well, and
\* the report holds the document only in that case.
C5_SuccessIffAnswered ==
    /\ pc = "returned" =>
          (result.success <=> \E r \in DOMAIN requests : ~requests[r].raised)
    /\ pc \in {"pdf_returned", "done", "filters_exit1"} =>
          /\ result.success <=> \E r \in DOMAIN requests : ~requests[r].raised
          /\ ~result.success =>
                /\ report.documents = <<>>
                /\ report.filtered_out_documents = <<>>
                /\ report.total_documents = 0
    /\ pc = "pdf_returned" => (result.success <=> Len(report.documents) = 1)

\* C5 witness: process_document returned a record for which both queries
\* were requested and both raised, and reported failure.
C5_Witness ==
    /\ pc = "returned"
    /\ result.has_record
    /\ ~result.success
    /\ Len(requests) = 2
    /\ requests[1].raised /\ requests[2].raised

\* C6 as stated: when BibTeX entry text and key are supplied, process_document
\* never returns without a record.
C6_AsStated ==
    (StrTruthy(doc.entry_text) /\ StrTruthy(doc.bibtex_key))
        => ~(pc = "returned" /\ ~result.has_record)

\* An in-loop discovery returned an existing file while actual_path was unset.
Adopted == discovered.at > 0 /\ ~discovered.had_path

\* C9 as stated: once a grounded query of a document without a body has
\* yielded a downloaded, readable PDF, is_metadata_only is false and every
\* later request embeds the document bytes.
C9_AsStated ==
    (discovered.at > 0 /\ discovered.read = "data") =>
        /\ ~document_data.is_metadata_only
        /\ \A r \in DOMAIN requests :
              requests[r].query_id > discovered.at => requests[r].mode = "pdf"

\* C9: when a grounded query of a document that has no local file yet (no
\* path from sourcing or from an earlier discovery) yields a downloaded,
\* readable PDF, is_metadata_only is false, the requests up to that query were
\* text-only and every later request embeds the bytes; when a path was
\* already set the file is not adopted and every request stays text-only;
\* and no step changes an entry that is already in queries.
C9_DiscoveryPromotes ==
    /\ [](Adopted /\ discovered.read = "data" =>
            /\ ~document_data.is_metadata_only
            /\ document_data.pdf_source = "searched_download"
            /\ \A r \in DOMAIN requests :
                  requests[r].mode =
                      IF requests[r].query_id > discovered.at THEN "pdf" ELSE "text")
    /\ [](discovered.at > 0 /\ discovered.had_path =>
            \A r \in DOMAIN requests : requests[r].mode = "text")
    /\ [][\A k \in DOMAIN document_data.queries :
            /\ k \in DOMAIN document_data'.queries
            /\ document_data'.queries[k] = document_data.queries[k]]_vars

\* C9 witness: the first query was answered from metadata and its grounding
\* led to a readable PDF that was adopted; the second request embedded the
\* bytes, and both entries are in the record.
C9_Witness ==
    /\ Adopted
    /\ discovered.at = 1
    /\ discovered.read = "data"
    /\ Len(requests) = 2
    /\ requests[1].mode = "text"
    /\ requests[2].mode = "pdf"
    /\ Len(Entries) = 2
    /\ ~document_data.is_metadata_only

\* A BibTeX entry without a file or URL reference.
EntryWithoutReference ==
    ~StrTruthy(doc.pdf_path) /\ StrTruthy(doc.entry_text) /\ StrTruthy(doc.bibtex_key)

\* Sourcing fell back to the metadata: an entry is there, no file was found
\* directly, and the search returned nothing or its file could not be read.
MetadataFallback ==
    /\ StrTruthy(doc.entry_text) /\ StrTruthy(doc.bibtex_key)
    /\ ~sourced.found
    /\ sourced.search = "none" \/ sourced.read = "raise"

\* C10 as stated: after such a fallback, and with no filter in the query
\* list, the record is returned and every non-skipped query was sent as a
\* text-only request.
C10_AsStated ==
    (/\ MetadataFallback
     /\ pc = "returned"
     /\ \A j \in 1..Len(queries) : ~Truthy(queries[j].filter_on)) =>
        /\ result.has_record
        /\ \A j \in 1..Len(queries) :
              ~Skipped(j) => \E r \in DOMAIN requests :
                                requests[r].query_id = j /\ requests[r].mode = "text"

\* C10: sourcing never fails for an entry without a reference; after a
\* fallback to the metadata the record exists, the metadata is the extracted
\* one, the record is metadata_only with is_metadata_only true until an
\* in-loop discovery is adopted, every request is text-only except those
\* after the adoption of a readable file, and every non-skipped query has
\* been requested when the record is returned without a filter stop.
C10_MetadataFallback ==
    /\ (EntryWithoutReference /\ pc = "returned") => result.has_record
    /\ MetadataFallback =>
          /\ pc # "raised"
          /\ pc = "returned" => result.has_record
          /\ metadata = extract_metadata(doc.entry_text, doc.bibtex_key)
          /\ ~Adopted => /\ document_data.pdf_source = "metadata_only"
                         /\ document_data.is_metadata_only
          /\ \A r \in DOMAIN requests :
                (~(Adopted /\ discovered.read = "data")
                   \/ requests[r].query_id <= discovered.at)
                    => requests[r].mode = "text"
          /\ (pc = "returned" /\ ~document_data.is_filtered_out) =>
                \A j \in 1..Len(queries) : ~Skipped(j) => Requested(j)

\* C10 witness: the search returned nothing for an entry without a
\* reference, both queries were sent text-only, and the returned record is
\* metadata_only.
C10_Witness ==
    /\ EntryWithoutReference
    /\ MetadataFallback
    /\ sourced.search = "none"
    /\ pc = "returned"
    /\ Len(requests) = 2
    /\ requests[1].mode = "text" /\ requests[2].mode = "text"
    /\ document_data.pdf_source = "metadata_only"
    /\ document_data.is_metadata_only

\* The reference of the document is a filesystem path.
LocalReference == StrTruthy(doc.pdf_path) /\ ~is_url(doc.pdf_path)

\* process_document has built its record.
RecordCreated == document_data # NoDocument

\* process_document returned its record after at least one request, and no
\* request raised.
AllRequestsSucceeded ==
    /\ pc = "returned"
    /\ result.has_record
    /\ requests # <<>>
    /\ \A r \in DOMAIN requests : ~requests[r].raised

\* C11: for a filesystem path the path itself is asked first and the path
\* under the bibliography's directory only when the first is no file; a file
\* is found exactly when one of the two answers yes, and the record's
\* file_path is the first that did. When process_document returns the record
\* of a found file after at least one request and none raised, pdf_source is
\* local_file, is_metadata_only is false and the entries are, in order, one
\* per request.
C11_LocalFileFirstHit ==
    (LocalReference /\ sourced.isfile # "not_tried") =>
        /\ sourced.isfile = "yes" => sourced.isfile_bibdir = "not_tried"
        /\ sourced.found <=> (sourced.isfile = "yes" \/ sourced.isfile_bibdir = "yes")
        /\ (RecordCreated /\ sourced.isfile = "yes")
              => document_data.file_path = doc.pdf_path
        /\ (RecordCreated /\ sourced.isfile_bibdir = "yes")
              => document_data.file_path = "refs/paper.pdf"
        /\ (sourced.found /\ AllRequestsSucceeded) =>
              /\ document_data.pdf_source = "local_file"
              /\ ~document_data.is_metadata_only
              /\ Len(Entries) = Len(requests)
              /\ \A k \in DOMAIN Entries : Entries[k].query_id = requests[k].query_id

\* C11 witness: the path is no file, the path under the bibliography's
\* directory is; a structured and a plain query both succeeded and the
\* returned record has two entries.
C11_Witness ==
    /\ pc = "returned"
    /\ result.has_record
    /\ doc = Doc("paper.pdf", "smith2020", EntryWithTitle, "refs/lib.bib")
    /\ sourced.isfile = "no"
    /\ sourced.isfile_bibdir = "yes"
    /\ queries = <<StructuredQuery, PlainQuery>>
    /\ Len(Entries) = 2
    /\ Len(requests) = 2
    /\ document_data.file_path = "refs/paper.pdf"
    /\ document_data.pdf_source = "local_file"

\* Sourcing went through the search strategy and obtained a readable,
\* non-empty file, before the loop or by the discovery inside it.
SearchSourced ==
    \/ RecordCreated /\ sourced.search = "found" /\ sourced.read = "data"
    \/ Adopted /\ discovered.read = "data"

\* C12 as stated: whenever sourcing succeeded through the search strategy,
\* the record has pdf_source = searched_download and a pdf_url that is not
\* null and differs from file_path.
C12_AsStated ==
    SearchSourced =>
        /\ document_data.pdf_source = "searched_download"
        /\ StrTruthy(document_data.pdf_url)
        /\ document_data.pdf_url # document_data.file_path

\* C13: from its creation to its return, a record of process_document with
\* pdf_source = metadata_only has is_metadata_only true and a non-empty
\* bibtex_metadata.
C13_MetadataOnlyConsistent ==
    (RecordCreated /\ document_data.pdf_source = "metadata_only") =>
        /\ document_data.is_metadata_only
        /\ MetaTruthy(document_data.bibtex_metadata)

\* C13 witness: the file the search downloaded could not be read, the record
\* fell back to metadata_only, two queries were answered and the record was
\* returned.
C13_Witness ==
    /\ pc = "returned"
    /\ result.has_record
    /\ sourced.search = "found"
    /\ sourced.read = "raise"
    /\ Len(Entries) = 2
    /\ document_data.pdf_source = "metadata_only"
    /\ document_data.is_metadata_only
    /\ StrTruthy(actual_path)

\* C14 as stated: a record that process_document returns with success has a
\* file_path that is not null.
C14_AsStated ==
    (pc = "returned" /\ result.has_record /\ result.success) =>
        document_data.file_path # "None"

\* The request r got a text back for a query that declares a structure, and
\* the text is not JSON.
UnparsableStructured(r) ==
    /\ requests[r].content # ""
    /\ StructureTruthy(queries[requests[r].query_id].structure)
    /\ json_loads(requests[r].content).t = "error"

\* C15: in process_document a request that returned a text that is not JSON,
\* for a query that declares a structure, did not raise; exactly one entry
\* has its query_id and that entry holds the text unchanged; every entry is
\* counted in successful_queries, and the call does not raise and returns
\* success.
C15_UnparsableKeepsRawText ==
    RecordCreated =>
        \A r \in DOMAIN requests :
            UnparsableStructured(r) =>
                /\ ~requests[r].raised
                /\ \E k \in DOMAIN Entries :
                      /\ Entries[k].query_id = requests[r].query_id
                      /\ Entries[k].response = PyText(requests[r].content)
                      /\ \A j \in DOMAIN Entries :
                            Entries[j].query_id = requests[r].query_id => j = k
                /\ successful_queries = Len(Entries)
                /\ pc # "raised"
                /\ pc = "returned" => result.has_record /\ result.success

\* C15 witness: the first query declares a structure and was answered with
\* free text; its entry holds that text, the second query was answered too
\* and the call returned success.
C15_Witness ==
    /\ pc = "returned"
    /\ result.success
    /\ queries = <<StructuredQuery, PlainQuery>>
    /\ Len(requests) = 2
    /\ UnparsableStructured(1)
    /\ Len(Entries) = 2
    /\ Entries[1].response = PyText("Yes, it is.")

\* ---------------------------------------------- claims on extract_response
\* A key or an index on the way to candidates[0].content.parts[0].text is
\* missing (or a container on the way is null).
ShapeAbsent(rd) ==
    \/ rd.candidates # "one"
    \/ rd.content # "present"
    \/ rd.parts # "one"
    \/ rd.text = "missing"

\* C16: once extract_response has been called on a response whose
\* candidates[0].content.parts[0].text is absent, it has raised and returned
\* no text, and the query loop that called it records the query as failed;
\* it returns only for a response that has the text.
C16_AbsentShapeRaises ==
    er_pc \in {"returned", "raised", "handled"} =>
        /\ ShapeAbsent(response_data) =>
              /\ er_result.raised # "none"
              /\ er_pc # "returned"
              /\ er_pc = "handled" => query_outcome = "failed"
        /\ er_result.raised = "none" => ~ShapeAbsent(response_data)

\* C16 witness: the first candidate has content with an empty parts list;
\* extract_response raised and the query was recorded as failed.
C16_Witness ==
    /\ er_pc = "handled"
    /\ response_data.candidates = "one"
    /\ response_data.content = "present"
    /\ response_data.parts = "empty"
    /\ er_result.raised = "Exception"
    /\ query_outcome = "failed"

\* ------------------------------------------------- claims on PDF discovery
\* The search queries of one kind issued so far.
RequestsOfKind(kind) == {r \in DOMAIN search_requests : search_requests[r].kind = kind}

\* A PDF cited by the strict query was downloaded.
StrictUsable == \E d \in DOMAIN downloads : downloads[d].kind = "strict" /\ downloads[d].ok

\* A find call with a title has returned.
FindReturned == find_pc = "returned" /\ has_title

\* C17 as stated: when a grounded find call has returned, its first request
\* was the strict query, it issued the relaxed query exactly once if the
\* strict query gave no downloaded PDF and not at all otherwise, and it
\* issued at most two requests.
C17_AsStated ==
    (FindReturned /\ strategy \in {"grounding_strategy", "grounding_finder"}) =>
        /\ search_requests # <<>>
        /\ search_requests[1].kind = "strict"
        /\ Cardinality(RequestsOfKind("relaxed")) = IF StrictUsable THEN 0 ELSE 1
        /\ Len(search_requests) <= 2

\* The verification of a tried candidate completed and reported
\* matches = true with a confidence of at least 0.7.
VerifiedMatch(t) ==
    /\ t.verification.status = "result"
    /\ t.verification.matches
    /\ t.verification.confidence >= 70

\* C18 as stated: with an API client, every candidate the finder accepted
\* had a completed verification with matches = true and confidence >= 0.7.
C18_AsStated ==
    api_client => \A k \in DOMAIN tried : tried[k].accepted => VerifiedMatch(tried[k])

\* C18: with an API client, a downloaded candidate is accepted exactly when
\* its verification reported matches = true with confidence >= 0.7 or could
\* not be completed; every other candidate is removed and the next one
\* tried; the call returns the first accepted candidate, and None when none
\* was accepted.
C18_VerifiedOrUnverifiable ==
    api_client =>
        /\ \A k \in DOMAIN tried :
              /\ tried[k].accepted <=>
                    (VerifiedMatch(tried[k]) \/ tried[k].verification.status = "error")
              /\ ~tried[k].accepted => tried[k].removed
              /\ tried[k].accepted =>
                    /\ k = Len(tried)
                    /\ find_pc = "returned"
                    /\ find_result.found
                    /\ find_result.index = tried[k].index
        /\ (find_pc = "returned" /\ find_result.found) =>
              tried # <<>> /\ tried[Len(tried)].accepted

\* C18 witness: the first candidate was downloaded and rejected with
\* matches = true and confidence 0.69; the second was verified with
\* confidence 0.7 and returned.
C18_Witness ==
    /\ api_client
    /\ find_pc = "returned"
    /\ Len(tried) = 2
    /\ tried[1].verification = [status |-> "result", matches |-> TRUE, confidence |-> 69]
    /\ ~tried[1].accepted
    /\ tried[1].removed
    /\ tried[2].verification = [status |-> "result", matches |-> TRUE, confidence |-> 70]
    /\ find_result.found
    /\ find_result.index = 2

\* The search requests sent by one engine.
RequestsBy(engine) == {r \in DOMAIN search_requests : search_requests[r].by = engine}

\* C19: in a find call through the fallback chain the first strategy
\* invoked is the grounded one; the direct strategy is invoked, second and
\* last, only after the grounded one returned nothing, and then it is; when
\* the grounded strategy returned a result no request of the direct
\* strategy is ever sent; every request of the grounded strategy precedes
\* every request of the direct one.
C19_GroundedFirst ==
    (chained /\ strategy_calls # <<>>) =>
        /\ strategy_calls[1].strategy = "grounded"
        /\ Len(strategy_calls) <= 2
        /\ Len(strategy_calls) = 2 =>
              /\ strategy_calls[2].strategy = "direct"
              /\ strategy_calls[1].returned = "nothing"
        /\ strategy_calls[1].returned = "result" =>
              Len(strategy_calls) = 1 /\ RequestsBy("qwant") = {}
        /\ RequestsBy("qwant") # {} => Len(strategy_calls) = 2
        /\ (find_pc = "done" /\ strategy_calls[1].returned = "nothing") =>
              Len(strategy_calls) = 2
        /\ \A g \in RequestsBy("grounding") : \A q \in RequestsBy("qwant") : g < q

\* C19 witness: the grounded strategy sent its strict and its relaxed query
\* and returned nothing; the direct strategy was then invoked and found the
\* PDF with its strict query.
C19_Witness ==
    /\ chained
    /\ find_pc = "done"
    /\ Len(strategy_calls) = 2
    /\ strategy_calls[1] = [strategy |-> "grounded", returned |-> "nothing"]
    /\ strategy_calls[2] = [strategy |-> "direct", returned |-> "result"]
    /\ Len(search_requests) = 3
    /\ search_requests[3] = [by |-> "qwant", kind |-> "strict"]
    /\ find_result.found

\* C19 second witness: the grounded strategy returned a result and the chain
\* returned it without invoking the direct strategy.
C19_WitnessGroundedOnly ==
    /\ chained
    /\ find_pc = "done"
    /\ strategy_calls = <<[strategy |-> "grounded", returned |-> "result"]>>
    /\ RequestsBy("qwant") = {}

\* C20 as stated: when a find call of the direct search-engine strategy has
\* returned, its first request was the strict query; if the strict attempt
\* gave no downloaded PDF (no URL, or a URL whose download failed) the
\* relaxed query was issued once; and it returned nothing only after the
\* relaxed query.
C20_AsStated ==
    (FindReturned /\ strategy \in {"qwant_strategy", "qwant_finder"}) =>
        /\ RequestsBy("qwant") # {}
        /\ \A r \in RequestsBy("qwant") :
              search_requests[r].kind = "relaxed" =>
                  r > 1 /\ search_requests[r - 1] = [by |-> "qwant", kind |-> "strict"]
        /\ ~StrictUsable =>
              Cardinality(RequestsOfKind("relaxed") \cap RequestsBy("qwant")) = 1
        /\ ~find_result.found =>
              RequestsOfKind("relaxed") \cap RequestsBy("qwant") # {}

\* ------------------------------------------------ claims on PDF acquisition
\* The grounded strategy ran alone, its strict query cited no PDF URL, and
\* its relaxed query cited one, whose file did not pass the header check.
RelaxedCitationInvalid ==
    /\ strategy = "grounding_strategy"
    /\ ~chained
    /\ find_pc = "returned"
    /\ search_requests = <<[by |-> "grounding", kind |-> "strict"],
                            [by |-> "grounding", kind |-> "relaxed"]>>
    /\ Len(downloads) = 1
    /\ downloads[1].kind = "relaxed"
    /\ downloads[1].branch = "bad_header"

\* C21: when the strict grounded query yields no citation and the relaxed
\* one yields one citation whose downloaded file fails the PDF header check,
\* the grounded strategy returns nothing (no path, no URL) and no file of
\* the attempt is left on disk.
C21_InvalidRelaxedCitation ==
    RelaxedCitationInvalid =>
        /\ find_result = NoFind
        /\ \A k \in 1..Len(downloads) : downloads[k].file = "absent"

\* C21 witness: the strategy has returned from that case.
C21_Witness ==
    /\ RelaxedCitationInvalid
    /\ ~downloads[1].ok
    /\ find_result = NoFind

\* The two calls were made with the same URL and the same title, and the
\* first one returned the path of the PDF it downloaded.
SameTargetTwice ==
    /\ dl_pc = "done"
    /\ dl_calls[1].url = dl_calls[2].url
    /\ dl_calls[1].title = dl_calls[2].title
    /\ dl_calls[1].path

\* C22 as stated: two successive download calls with the same URL and title
\* map to the same file name and fetch from the network at most once; the
\* second call finds the existing file and returns its path without any
\* network request.
C22_AsStated ==
    SameTargetTwice =>
        /\ dl_calls[1].name = dl_calls[2].name
        /\ ~(dl_calls[1].network /\ dl_calls[2].network)
        /\ dl_calls[2].path

\* The body of a call's response was received to the end (iter_content did
\* not raise) into the target file, and it does not begin with %PDF-.
InvalidFileWritten(c) ==
    /\ c.requested
    /\ c.fetch.get = "ok"
    /\ c.fetch.pdf_type \/ c.url = "https://a.org/p.pdf"
    /\ c.fetch.open_ok
    /\ ~c.fetch.broken
    /\ ~c.fetch.header

\* C23: a download whose received bytes do not begin with the PDF magic
\* header returns None, and the file it wrote is deleted: nothing is left at
\* the target path.
C23_InvalidHeaderRemoved ==
    \A k \in 1..Len(dl_calls) :
        InvalidFileWritten(dl_calls[k]) =>
            /\ ~dl_calls[k].path
            /\ dl_calls[k].after = "absent"
            /\ k = Len(dl_calls) => disk[dl_calls[k].name] = "absent"

\* C23 witness: the second call wrote a file without the header over the
\* PDF of the first call, and the target is gone.
C23_Witness ==
    /\ dl_pc = "done"
    /\ dl_calls[1].path
    /\ InvalidFileWritten(dl_calls[2])
    /\ dl_calls[2].name = dl_calls[1].name
    /\ dl_calls[2].before = "pdf"
    /\ disk[dl_calls[2].name] = "absent"

\* A call got as far as writing the body to the target file.
ReachedWriteLoop(c) ==
    /\ c.requested
    /\ c.fetch.get = "ok"
    /\ c.fetch.pdf_type \/ c.url = "https://a.org/p.pdf"
    /\ c.fetch.open_ok

\* the bytes received up to and including the j-th chunk
ReceivedUpTo(c, j) == Total(SubSeq(c.fetch.chunks, 1, j))

\* C24: a download whose cumulative received size exceeds the maximum of
\* 50 MiB is rejected mid-stream, returning None with the partly written
\* file deleted; a download of at most the maximum is never rejected for
\* its size.
C24_SizeLimit ==
    \A k \in 1..Len(dl_calls) :
        LET c == dl_calls[k] IN
        ReachedWriteLoop(c) =>
            IF \E j \in 1..Len(c.fetch.chunks) : ReceivedUpTo(c, j) > 50 * 1024 * 1024
            THEN c.branch = "too_large" /\ ~c.path /\ c.after = "absent"
            ELSE c.branch # "too_large"

\* C24 witness: a body one byte over the maximum was rejected after part of
\* it had been written, and a body of exactly the maximum was accepted.
C24_Witness ==
    /\ dl_pc = "done"
    /\ ReachedWriteLoop(dl_calls[1])
    /\ dl_calls[1].fetch.chunks = <<max_size, 1>>
    /\ dl_calls[1].branch = "too_large"
    /\ dl_calls[1].after = "absent"
    /\ ReachedWriteLoop(dl_calls[2])
    /\ Total(dl_calls[2].fetch.chunks) = max_size
    /\ dl_calls[2].path

\* What went wrong in a call, "none" when nothing did: the failures of an
\* HTTP error, a timeout, a content type that is not PDF, the size limit, an
\* invalid header and an I/O error, and a title that is no string.
Failure(c) ==
    CASE ~c.requested -> "bad_title"
      [] c.fetch.get = "raise" -> "timeout"
      [] c.fetch.get = "http_error" -> "http_error"
      [] ~(c.fetch.pdf_type \/ c.url = "https://a.org/p.pdf") -> "content_type"
      [] ~c.fetch.open_ok -> "io_error"
      [] Total(c.fetch.chunks) > max_size -> "size_limit"
      [] c.fetch.broken -> "io_error"
      [] ~c.fetch.header -> "invalid_header"
      [] OTHER -> "none"

\* C25: the download function never raises to its caller; on every failure
\* it returns None, and the caller, _download_pdf_from_url, returns None in
\* turn: no PDF here.
C25_DownloadNeverRaises ==
    \A k \in 1..Len(dl_calls) :
        LET c == dl_calls[k] IN
        /\ ~c.raised
        /\ Failure(c) # "none" =>
              /\ ~c.path
              /\ download_pdf_from_url(c.url, IF c.path THEN "ok" ELSE "fail") = "None"

\* C25 witness: a call that timed out and a call whose transfer broke off
\* both returned None.
C25_Witness ==
    /\ dl_pc = "done"
    /\ Failure(dl_calls[1]) = "timeout"
    /\ Failure(dl_calls[2]) = "io_error"
    /\ dl_calls[2].fetch.broken
    /\ ~dl_calls[1].path /\ ~dl_calls[1].raised
    /\ ~dl_calls[2].path /\ ~dl_calls[2].raised

\* ------------------------------------------------- claims on the run
\* The record of the checkpoint for a key of the ledger is in the report.
CheckpointRecordKept ==
    \A k \in 1..Len(Checkpoint.documents) :
        \E j \in 1..Len(run_report) : run_report[j] = Checkpoint.documents[k]

\* C26: in a resumed run the entry whose bibtex_key is in the processed
\* ledger of the checkpoint is skipped: process_pdf is not called for it, so
\* nothing is sourced and no request is sent for it, and its record of the
\* checkpoint stays in the report.
C26_AsStated ==
    (run_resume /\ run_pc \notin {"construct", "exit_config"})
        => /\ \A i \in 1..Len(run_calls) : run_calls[i].bibtex_key \notin ledger
           /\ CheckpointRecordKept

\* The positions of the save attempts made at one place of the run.
SavesAt(place) == {k \in 1..Len(saves) : saves[k].at = place}

\* The save attempts that follow the call with the given index.
SavesAfterCall(i) ==
    {k \in 1..Len(saves) :
        saves[k].after = i /\ saves[k].at \in {"document", "interrupted", "error"}}

\* The processing has started: the initial save is behind.
ProcessingStarted == run_pc \notin {"construct", "exit_config", "initial_save"}

\* C27: one save is attempted before the first document, one after every
\* process_pdf call, whatever it returned (after a call that raised, the
\* handler attempts it), and one more when the run completes; after a
\* per-document save that failed the run goes on, so that a run only ends
\* with an error when process_pdf itself raised.
C27_SavePoints ==
    /\ ProcessingStarted
          => /\ Cardinality(SavesAt("initial")) = 1
             /\ saves[1].at = "initial"
    /\ \A i \in 1..Len(run_calls) :
          /\ run_calls[i].ending \in {"True", "False"}
                => Cardinality({k \in SavesAfterCall(i) : saves[k].at = "document"}) = 1
          /\ (i < Len(run_calls) \/ run_pc \notin {"interrupted", "error"})
                => SavesAfterCall(i) # {}
    /\ run_pc = "completed"
          => /\ Cardinality(SavesAt("final")) = 1
             /\ saves[Len(saves)].at = "final"
             /\ Len(saves) = Len(run_calls) + 2
    /\ run_pc \in {"error", "exit_error"}
          => run_calls[Len(run_calls)].ending = "raised"

\* C27 witness: a completed run of two documents, one processed and one
\* failed, in which the save after the first document failed.
C27_Witness ==
    /\ run_pc = "completed"
    /\ Len(run_calls) = 2
    /\ {run_calls[1].ending, run_calls[2].ending} = {"True", "False"}
    /\ \E k \in SavesAt("document") : saves[k].after = 1 /\ ~saves[k].ok

\* C28: when the run ended by an interrupt or an exception during the
\* documents, the last thing before the exit was a save attempt of the
\* handler, made after all the calls, and the exit status is not zero.
C28_SaveBeforeFailureExit ==
    run_pc \in {"exit_interrupted", "exit_error"}
        => /\ saves # <<>>
           /\ saves[Len(saves)].at
                 = (IF run_pc = "exit_interrupted" THEN "interrupted" ELSE "error")
           /\ saves[Len(saves)].after = Len(run_calls)
           /\ exit_status = 1

\* C28 witness: a run interrupted in the second document, after the first
\* was processed, has exited.
C28_Witness ==
    /\ run_pc = "exit_interrupted"
    /\ Len(run_calls) = 2
    /\ run_calls[1].ending = "True"
    /\ run_calls[2].ending = "interrupt"

\* A call of the run was cut by an interrupt or raised, or a save was cut by
\* an interrupt, or a filter field of the report is no boolean.
RunCut ==
    \/ \E i \in 1..Len(run_calls) : run_calls[i].ending \in {"interrupt", "raised"}
    \/ \E k \in SavesAt("document") : saves[k].cut
    \/ \E k \in 1..Len(run_report) : run_report[k].answer = "non_boolean"

\* C29: a run with one of the three configuration errors exits with status
\* 1; a run that completes exits with status 0; and a status other than 0
\* comes with a configuration error or a cut run, never with documents that
\* only failed or were filtered out.
C29_ExitStatus ==
    /\ (run_config # "ok" /\ run_pc # "construct")
          => run_pc = "exit_config" /\ exit_status = 1
    /\ run_pc = "completed" => exit_status = 0
    /\ exit_status \notin {-1, 0} => (run_config # "ok" \/ RunCut)

\* C29 witness: a completed run in which one document failed and the other
\* was filtered out.
C29_Witness ==
    /\ run_pc = "completed"
    /\ exit_status = 0
    /\ \E i \in 1..Len(run_calls) : run_calls[i].ending = "False"
    /\ \E i \in 1..Len(run_calls) : run_calls[i].ending = "True"
    /\ run_report = load_state(run_resume).documents

\* The sourcing of the call failed: no file and no entry, a file that cannot
\* be read, or an empty file with nothing else to send.
SourcingFailed(call) == call.sourcing \in {"no_source", "unreadable", "empty_file"}

\* C30: a document whose sourcing failed is skipped, process_pdf returns
\* False for it and sends no request, and the iteration goes on: unless an
\* interrupt cut the save, the next document of the list is up.
C30_AsStated ==
    \A i \in 1..Len(run_calls) :
        SourcingFailed(run_calls[i])
            => /\ run_calls[i].ending = "False"
               /\ run_calls[i].requests = 0
               /\ (i = Len(run_calls) /\ run_pc = "documents") => doc_index = i + 1
               /\ run_pc \notin {"error", "exit_error"}

\* ------------------------------------------- claims on the BibTeX update
\* The entry had a url field that is not blank before the update.
HasReference(entry) == entry.has_url /\ Strip(entry.url) # ""

\* What every update does to the entries: an entry with a reference and an
\* entry whose key is not in the mapping are as before, and an entry that
\* changed had no reference and has the URL of the mapping.
UpdateFrame(u) ==
    /\ Len(u.after) = Len(u.before)
    /\ \A i \in 1..Len(u.before) :
          /\ HasReference(u.before[i]) => u.after[i] = u.before[i]
          /\ u.before[i].ID \notin DOMAIN url_mappings => u.after[i] = u.before[i]
          /\ u.after[i] # u.before[i]
                => /\ ~HasReference(u.before[i])
                   /\ u.after[i].ID = u.before[i].ID
                   /\ u.after[i].url = url_mappings[u.before[i].ID]

\* The update that follows an update which read the file changes nothing
\* and returns 0.
SecondUpdateIdle ==
    \A n \in 2..Len(bib_updates) :
        bib_updates[n - 1].read_ok
            => bib_updates[n].returned = 0 /\ bib_updates[n].after = bib_updates[n].before

MappingNotBlank == \A k \in DOMAIN url_mappings : Strip(url_mappings[k]) # ""

SourcingDone == pc \in {"loop", "break", "returned"} /\ sourced # NotSourced

\* C32: in sourcing the search strategy is called at most once; it is not
\* called when the direct download or the local lookup gave a file, and it
\* is called only for an item that has entry text and a key.
C32_SearchLastAndOnce ==
    /\ sourced.searches <= 1
    /\ sourced.found => (sourced.searches = 0 /\ sourced.search = "not_tried")
    /\ sourced.searches > 0
          => /\ ~sourced.found
             /\ StrTruthy(doc.entry_text)
             /\ StrTruthy(doc.bibtex_key)
             /\ sourced.isfile \in {"no", "not_tried"}
             /\ sourced.isfile_bibdir \in {"no", "not_tried"}
    /\ sourced.search # "not_tried" => sourced.searches = 1

\* C32 witness: the direct download of an entry's URL failed and the search
\* was made once.
C32_Witness ==
    /\ is_url(doc.pdf_path)
    /\ SourcingDone
    /\ ~sourced.found
    /\ sourced.searches = 1

\* The query is flagged semantic_scholar.
ScholarFlagged(query_id) == Truthy(queries[query_id].params["semantic_scholar"])

\* The entries of the record of the running call, of process_document or of
\* process_pdf.
RecordQueries ==
    IF document_data # NoDocument THEN document_data.queries
    ELSE analyzer_document.queries

\* C33: in the query loop of a document no request is sent for a query
\* flagged semantic_scholar, the record gets no entry for it, and the count
\* of successful queries stays within the queries that are not flagged.
C33_AsStated ==
    /\ \A i \in 1..Len(requests) : ~ScholarFlagged(requests[i].query_id)
    /\ \A i \in 1..Len(RecordQueries) : ~ScholarFlagged(RecordQueries[i].query_id)
    /\ successful_queries
          <= Cardinality({k \in 1..Len(queries) : ~ScholarFlagged(k)})

\* process_document returned a record as accepted.
Accepted ==
    /\ pc = "returned"
    /\ result.has_record
    /\ result.success
    /\ ~document_data.is_filtered_out

\* The queries of the call that declare filter_on and are not flagged
\* semantic_scholar.
FilterQueryIds ==
    {k \in 1..Len(queries) : Truthy(queries[k].filter_on) /\ ~ScholarFlagged(k)}

\* The entry's response is an object whose filter field is the boolean true.
FilterFieldTrue(entry) ==
    LET field == queries[entry.query_id].filter_on.s
    IN /\ entry.response.t = "dict"
       /\ DictGet(entry.response, field).t = "bool"
       /\ DictGet(entry.response, field).b

\* C34 as stated: an accepted record has, for every filter query, an entry
\* whose filter field is the boolean true.
C34_AsStated ==
    Accepted
        => \A k \in FilterQueryIds :
              \E i \in 1..Len(document_data.queries) :
                  /\ document_data.queries[i].query_id = k
                  /\ FilterFieldTrue(document_data.queries[i])

\* C34 amended: in an accepted record every entry of a filter query has the
\* filter field true, and a filter query without such an entry is one whose
\* request raised.
C34_AcceptedNotEjected ==
    Accepted
        => /\ \A i \in 1..Len(document_data.queries) :
                 document_data.queries[i].query_id \in FilterQueryIds
                    => FilterFieldTrue(document_data.queries[i])
           /\ \A k \in FilterQueryIds :
                 \/ \E i \in 1..Len(document_data.queries) :
                       document_data.queries[i].query_id = k
                 \/ \E j \in 1..Len(requests) :
                       requests[j].query_id = k /\ requests[j].raised

\* C34 witness: a record is accepted whose filter query raised and left no
\* entry, another query having been answered.
C34_Witness ==
    /\ Accepted
    /\ \E k \in FilterQueryIds :
          /\ \A i \in 1..Len(document_data.queries) : document_data.queries[i].query_id # k
          /\ \E j \in 1..Len(requests) : requests[j].query_id = k /\ requests[j].raised

\* The entries of document_data.queries that belong to a filter query and
\* hold a response that is no object.
UnstructuredFilterEntries ==
    {i \in 1..Len(document_data.queries) :
        /\ Truthy(queries[document_data.queries[i].query_id].filter_on)
        /\ document_data.queries[i].response.t # "dict"}

\* C35: when the response of a filter query is no object, the record is
\* marked filtered out at that query with a reason, the raw response is the
\* last entry, no later query is requested, and process_document goes on to
\* return the record: it neither exits nor raises.
C35_UnstructuredFiltersOut ==
    \A i \in UnstructuredFilterEntries :
        LET entry == document_data.queries[i]
        IN /\ document_data.is_filtered_out
           /\ document_data.filtered_at_query = entry.query_id
           /\ document_data.filter_reason # "None"
           /\ i = Len(document_data.queries)
           /\ entry.response = ParsedResponse(queries[entry.query_id],
                                               requests[Len(requests)].content)
           /\ \A j \in 1..Len(requests) : requests[j].query_id <= entry.query_id
           /\ pc \in {"break", "returned"}
           /\ pc = "returned" => result.has_record

\* C35 witness: process_document returned a record that the raw text answer
\* of a filter query ejected, with a query left after it.
C35_Witness ==
    /\ pc = "returned"
    /\ \E i \in UnstructuredFilterEntries :
          /\ document_data.queries[i].response.s # ""
          /\ document_data.queries[i].query_id < Len(queries)

\* C36: a document in the query loop of process_document has document
\* bytes or extracted metadata, so that the metadata prompt is never built
\* from None and the loop never raises outside its try.
C36_AsStated ==
    /\ pc \in {"loop", "break"} => (StrTruthy(pdf_data) \/ metadata # MetaNone)
    /\ pc # "raised"

\* C37: in a record that process_document returns, is_metadata_only is
\* true exactly when pdf_source is metadata_only, and it is false once the
\* discovery of the query loop has made the source searched_download.
C37_AsStated ==
    (pc = "returned" /\ result.has_record)
        => /\ document_data.is_metadata_only <=> document_data.pdf_source = "metadata_only"
           /\ (discovered.at # 0 /\ document_data.pdf_source = "searched_download")
                 => ~document_data.is_metadata_only

\* ------------------------------ claims on the tracking of downloaded files
\* The paths passed to cleanup_temp_files by the first k cleanup calls.
HandedUpTo(k) == UNION {handed[j].paths : j \in 1..k}

\* C38: every file the processor has downloaded is in downloaded_pdfs until
\* a cleanup passes it on, whatever verbose is, so that after each cleanup
\* every file downloaded before it has been handed to removal and the list
\* is empty.
C38_AsStated ==
    /\ \A f \in temp_files :
          \/ f \in HandedUpTo(Len(handed))
          \/ \E i \in 1..Len(downloaded_pdfs) : downloaded_pdfs[i] = f
    /\ \A k \in 1..Len(handed) : handed[k].files \subseteq HandedUpTo(k)


\* ---------------------------------------------------------------- C39
\* How often document d occurs in the list docs.
Occurrences(docs, d) == Cardinality({k \in DOMAIN docs : docs[k] = d})

\* The documents a step appended to filtered_out_documents.
NewlyFilteredOut ==
    SubSeq(report'.filtered_out_documents,
           Len(report.filtered_out_documents) + 1, Len(report'.filtered_out_documents))

\* A step that is a returned _apply_filters leaves the earlier filtered-out
\* documents in place and sends every reported document either to the
\* remaining documents or to the end of the filtered-out list.
FilterPartitions ==
    pc' = "filtered" =>
        /\ Len(report.filtered_out_documents) <= Len(report'.filtered_out_documents)
        /\ SubSeq(report'.filtered_out_documents, 1, Len(report.filtered_out_documents))
               = report.filtered_out_documents
        /\ \A k \in DOMAIN report'.documents :
               \E j \in DOMAIN report.documents : report.documents[j] = report'.documents[k]
        /\ \A k \in DOMAIN NewlyFilteredOut :
               \E j \in DOMAIN report.documents : report.documents[j] = NewlyFilteredOut[k]
        /\ \A j \in DOMAIN report.documents :
               Occurrences(report.documents, report.documents[j])
                   = Occurrences(report'.documents, report.documents[j])
                     + Occurrences(NewlyFilteredOut, report.documents[j])

\* C39: whatever initialize_json_structure, add_document and _apply_filters
\* calls were made, total_documents is the length of the documents list;
\* when _apply_filters has returned, every document that was reported is in
\* exactly one of the remaining documents and the filtered-out list, and
\* filtered_out_count is the length of the filtered-out list.
C39_ReportCounters ==
    /\ [](report.total_documents = Len(report.documents))
    /\ [](pc = "filtered" =>
            report.filtered_out_count = Len(report.filtered_out_documents))
    /\ [][FilterPartitions]_vars

\* C39 witness: _apply_filters returned after several operations, having
\* kept one document and filtered out another.
C39_Witness ==
    /\ pc = "filtered"
    /\ Len(report.documents) = 1
    /\ Len(report.filtered_out_documents) = 1
    /\ report.total_documents = 1
    /\ report.filtered_out_count = 1

\* ---------------------------------------------------------------- C40
\* C40 as stated: every download call that returns no path and found nothing
\* at its target path leaves nothing there, whichever failure ended it: an
\* HTTP error, a content type that is no PDF, a body over the size limit, a
\* missing PDF header or an exception in the middle of the transfer.
C40_AsStated ==
    \A i \in 1..Len(dl_calls) :
        (~dl_calls[i].path /\ dl_calls[i].before = "absent")
            => dl_calls[i].after = "absent"
====
